---------------------------- MODULE Spec2Model ----------------------------
(***************************************************************************)
(* Hierarchical LinUCB contextual bandit of the nostalgic recommendation   *)
(* engine: one global LinUCBBandit and one LinUCBBandit per user, each     *)
(* holding a ridge-regression arm (A, b) per canonical genre arm.          *)
(*                                                                         *)
(* Real-valued quantities are carried exactly where the algorithm is       *)
(* linear: a context feature is a whole number of 1/ContextUnit, so that   *)
(* the neutral stress 0.5 is one unit; A is carried as ContextUnit^2 A and *)
(* b as ContextUnit b, which are integers, and x' Inverse(A) b and         *)
(* x' Inverse(A) x keep their values.  Scores are in fixed point with      *)
(* Scale units per 1.0 where a square root is taken (the UCB score).       *)
(***************************************************************************)
EXTENDS Integers, Sequences, FiniteSets, TLC

(***************************************************************************)
(* Bounds of the model                                                     *)
(***************************************************************************)
Dim == 2                \* context dimension used by the model (12 in production)
Scale == 100            \* fixed-point units per 1.0 for scores
MaxUpdates == 1         \* Update calls served after start-up
MaxRestarts == 1        \* process restarts explored
MaxSequence == 2        \* updates applied in a row to one model
MaxWorkers == 2         \* requests served side by side
MaxRequests == 2        \* recommendation and feedback requests served
MaxParts == 2           \* "|"-separated parts of a raw genre string
MaxRefreshes == 2       \* clicks on the refresh button of one card

(***************************************************************************)
(* Program constants                                                       *)
(***************************************************************************)
MIN_USER_UPDATES == 10
BLEND_DIVISOR == 50
MAX_BLEND_NUM == 7      \* MAX_BLEND = 0.7 = MAX_BLEND_NUM / MAX_BLEND_DEN
MAX_BLEND_DEN == 10
Alpha == 1
ContextUnit == 2        \* context features are carried in halves (neutral stress 0.5 = 1)
CONTEXT_DIM == 12
BIRTH_YEAR_CENTER == 2000
BIRTH_YEAR_SCALE == 40
RECENT_LIMIT == 50      \* feedback events fetched per request

ARMS == {"drama", "comedy", "action", "romance", "thriller", "other_movie",
         "pop", "rock", "hiphop", "rnb", "country", "other_song"}

Users == {"u1", "u2"}

(***************************************************************************)
(* Small arithmetic helpers                                                *)
(***************************************************************************)
Idx == 1..Dim

Min(a, b) == IF a <= b THEN a ELSE b

RECURSIVE SumTo(_, _)
\* sum of f[1..n]
SumTo(f, n) == IF n = 0 THEN 0 ELSE f[n] + SumTo(f, n - 1)

RECURSIVE SqrtBetween(_, _, _)
\* the r in lo..hi with r*r <= n < (r+1)*(r+1), by bisection
SqrtBetween(n, lo, hi) ==
    IF lo = hi THEN lo
    ELSE LET mid == (lo + hi + 1) \div 2
         IN  IF mid * mid <= n THEN SqrtBetween(n, mid, hi)
             ELSE SqrtBetween(n, lo, mid - 1)

\* floor of the square root of a natural number below 2^30
ISqrt(n) == SqrtBetween(n, 0, 32767)

(***************************************************************************)
(* Vectors and matrices (sequences, sequences of rows)                     *)
(***************************************************************************)
RECURSIVE Listed(_, _)
\* the sequence <<f[1], ..., f[n]>>
Listed(f, n) == IF n = 0 THEN <<>> ELSE Append(Listed(f, n - 1), f[n])

Vec(f) == Listed(f, Dim)

Mat(f) == Listed([i \in Idx |-> Listed(f[i], Dim)], Dim)

ZeroVec == Vec([i \in Idx |-> 0])

\* the identity matrix, in the units A is carried in
Identity ==
    Mat([i \in Idx |-> [j \in Idx |-> IF i = j THEN ContextUnit * ContextUnit ELSE 0]])

Outer(x, y) == Mat([i \in Idx |-> [j \in Idx |-> x[i] * y[j]]])

MatAdd(M, N) == Mat([i \in Idx |-> [j \in Idx |-> M[i][j] + N[i][j]]])

VecAdd(v, w) == Vec([i \in Idx |-> v[i] + w[i]])

VecScale(r, v) == Vec([i \in Idx |-> r * v[i]])

\* the matrix M (n x n) without row r and column c
Minor(M, n, r, c) ==
    [i \in 1..(n - 1) |->
        [j \in 1..(n - 1) |->
            M[IF i < r THEN i ELSE i + 1][IF j < c THEN j ELSE j + 1]]]

Sign(k) == IF k % 2 = 0 THEN 1 ELSE -1

RECURSIVE Det(_, _)
\* determinant of the n x n matrix M by expansion along the first row
Det(M, n) ==
    IF n = 0 THEN 1
    ELSE IF n = 1 THEN M[1][1]
    ELSE IF n = 2 THEN M[1][1] * M[2][2] - M[1][2] * M[2][1]
    ELSE SumTo([j \in 1..n |-> Sign(1 + j) * M[1][j] * Det(Minor(M, n, 1, j), n - 1)], n)

\* adjugate: Inverse(M) = Adj(M) / Det(M)
Adj(M) ==
    Listed([i \in Idx |->
               Listed([j \in Idx |-> Sign(i + j) * Det(Minor(M, Dim, j, i), Dim - 1)],
                      Dim)], Dim)

\* x' M y
Quad(x, M, y) ==
    SumTo([i \in Idx |-> x[i] * SumTo([j \in Idx |-> M[i][j] * y[j]], Dim)], Dim)

IsSymmetric(M) == \A i, j \in Idx : M[i][j] = M[j][i]

\* leading principal k x k block of M
Leading(M, k) == [i \in 1..k |-> [j \in 1..k |-> M[i][j]]]

\* Sylvester's criterion
IsPositiveDefinite(M) == \A k \in Idx : Det(Leading(M, k), k) > 0


(***************************************************************************)
(* Genre normalization (arms of the bandit)                                *)
(*                                                                         *)
(* A raw genre string is the sequence of its "|"-separated parts; a part   *)
(* is its lower-case trimmed text plus two flags telling whether the raw   *)
(* text carried upper-case letters or surrounding blanks.                  *)
(***************************************************************************)
Part(text, upper, padded) == [text |-> text, upper |-> upper, padded |-> padded]

ToLowerCase(p) == [p EXCEPT !.upper = FALSE]

Trim(p) == [p EXCEPT !.padded = FALSE]

MOVIE_GENRE_MAP ==
    [g \in {"drama", "comedy", "action", "adventure", "romance", "thriller",
            "horror", "crime", "sci-fi", "animation", "family", "fantasy",
            "mystery", "war", "documentary", "musical", "history"} |->
        CASE g \in {"drama", "war", "history"} -> "drama"
          [] g \in {"comedy", "animation", "family", "musical"} -> "comedy"
          [] g \in {"action", "adventure", "sci-fi", "fantasy"} -> "action"
          [] g = "romance" -> "romance"
          [] g \in {"thriller", "horror", "crime", "mystery"} -> "thriller"
          [] g = "documentary" -> "other_movie"]

SONG_GENRE_MAP ==
    [g \in {"pop", "rock", "alternative", "indie", "hip hop", "hip-hop", "rap",
            "r&b", "rnb", "soul", "blues", "country", "folk", "electronic",
            "dance", "edm", "latin", "metal", "punk", "jazz", "classical",
            "reggae"} |->
        CASE g \in {"pop", "electronic", "dance", "edm", "latin"} -> "pop"
          [] g \in {"rock", "alternative", "indie", "metal", "punk"} -> "rock"
          [] g \in {"hip hop", "hip-hop", "rap"} -> "hiphop"
          [] g \in {"r&b", "rnb", "soul", "blues"} -> "rnb"
          [] g \in {"country", "folk"} -> "country"
          [] g \in {"jazz", "classical", "reggae"} -> "other_song"]

\* p is a key of map: the text is a key and nothing of the raw text is left over
InMap(p, map) == ~p.upper /\ ~p.padded /\ p.text \in DOMAIN map

\* the normalization without the catch-all arms: an unknown genre is
\* returned as it is
NormalizeGenreNoCatchAll(raw_genre, content_type) ==
    IF raw_genre = <<>>
    THEN IF content_type = "movie" THEN "other_movie" ELSE "other_song"
    ELSE LET first_genre == Trim(ToLowerCase(raw_genre[1]))
         IN  IF content_type = "movie"
             THEN IF InMap(first_genre, MOVIE_GENRE_MAP)
                  THEN MOVIE_GENRE_MAP[first_genre.text] ELSE first_genre.text
             ELSE IF InMap(first_genre, SONG_GENRE_MAP)
                  THEN SONG_GENRE_MAP[first_genre.text] ELSE first_genre.text

NORMALIZE_GENRE(raw_genre, content_type) ==
    IF raw_genre = <<>>
    THEN IF content_type = "movie" THEN "other_movie" ELSE "other_song"
    ELSE LET first_genre == Trim(ToLowerCase(raw_genre[1]))
         IN  IF content_type = "movie"
             THEN IF InMap(first_genre, MOVIE_GENRE_MAP)
                  THEN MOVIE_GENRE_MAP[first_genre.text] ELSE "other_movie"
             ELSE IF InMap(first_genre, SONG_GENRE_MAP)
                  THEN SONG_GENRE_MAP[first_genre.text] ELSE "other_song"

GetArmFromCandidate(candidate) == NORMALIZE_GENRE(candidate.genre, candidate.type)

(***************************************************************************)
(* Inputs of the model                                                     *)
(***************************************************************************)
CandDrama == [type |-> "movie", id |-> 1, genre |-> <<Part("drama", FALSE, FALSE)>>]

CandRock ==
    [type |-> "song", id |-> 2,
     genre |-> <<Part("rock", TRUE, TRUE), Part("pop", FALSE, FALSE)>>]

CandWar == [type |-> "movie", id |-> 3, genre |-> <<Part("war", TRUE, FALSE)>>]

UpdateCandidates == {CandDrama, CandRock}

CandidateLists == {<<CandDrama>>, <<CandRock, CandWar, CandDrama>>}

\* raw context vectors (features 1.0, -1.0, 0): too short, of the right
\* length, too long
CtxStressed == [i \in 1..1 |-> ContextUnit]

CtxOld == [i \in 1..Dim |-> IF i = Dim THEN -ContextUnit ELSE 0]

CtxLong ==
    [i \in 1..(Dim + 1) |->
        IF i = 1 \/ i = Dim + 1 THEN ContextUnit
        ELSE IF i = Dim THEN -ContextUnit ELSE 0]

RawContexts == {CtxStressed, CtxOld, CtxLong}

\* rewards in Scale units: 0.0, 0.5 and 1.0
Rewards == {0, Scale \div 2, Scale}

(***************************************************************************)
(* LinUCBBandit: one model (global or of one user)                         *)
(***************************************************************************)
EnsureShape(context) == Vec([i \in Idx |-> IF i <= Len(context) THEN context[i] ELSE 0])

NewModel ==
    [is_fitted |-> FALSE, n_updates |-> 0,
     A |-> [a \in ARMS |-> Identity], b |-> [a \in ARMS |-> ZeroVec]]

\* the reward with its two values swapped
BinaryRewardInverted(reward) == IF 2 * reward > Scale THEN 0 ELSE 1

\* reward > 0.5
BinaryReward(reward) == IF 2 * reward > Scale THEN 1 ELSE 0

\* the ridge update with the sign of the outer product slipped
PartialFitMinus(m, arm, r, x) ==
    [m EXCEPT !.A[arm] = MatAdd(@, Outer(VecScale(-1, x), x)),
              !.b[arm] = VecAdd(@, VecScale(r, x))]

\* ridge update of one arm: A <- A + x x', b <- b + r x
PartialFit(m, arm, r, x) ==
    [m EXCEPT !.A[arm] = MatAdd(@, Outer(x, x)),
              !.b[arm] = VecAdd(@, VecScale(r, x))]

\* first fit: every arm starts from (I, 0), then the observation is learnt
Fit(m, arm, r, x) ==
    PartialFit([m EXCEPT !.A = [a \in ARMS |-> Identity],
                         !.b = [a \in ARMS |-> ZeroVec]], arm, r, x)

\* the update that never leaves the first-fit branch (is_fitted is not set)
LinUCBUpdateRefit(m, context, candidate, reward) ==
    LET x == EnsureShape(context)
        arm == GetArmFromCandidate(candidate)
        binary_reward == BinaryReward(reward)
    IN  [Fit(m, arm, binary_reward, x) EXCEPT !.n_updates = @ + 1]

LinUCBUpdate(m, context, candidate, reward) ==
    LET x == EnsureShape(context)
        arm == GetArmFromCandidate(candidate)
        binary_reward == BinaryReward(reward)
        fitted == IF ~m.is_fitted
                  THEN [Fit(m, arm, binary_reward, x) EXCEPT !.is_fitted = TRUE]
                  ELSE PartialFit(m, arm, binary_reward, x)
    IN  [fitted EXCEPT !.n_updates = @ + 1]

\* theta' x in Scale units, theta = Inverse(A) b, given Adj(A) and Det(A)
ThetaX(adj, det, b, x) == (Scale * Quad(x, adj, b)) \div det

\* alpha * sqrt(x' Inverse(A) x) in Scale units, given Adj(A) and Det(A)
Bonus(adj, det, x) == Alpha * ISqrt((Scale * Scale * Quad(x, adj, x)) \div det)

\* expected reward of the arm in context x
Expectation(m, arm, x) == ThetaX(Adj(m.A[arm]), Det(m.A[arm], Dim), m.b[arm], x)

\* exploration bonus of the arm in context x
Exploration(m, arm, x) == Bonus(Adj(m.A[arm]), Det(m.A[arm], Dim), x)

\* the score without the exploration bonus
UCBScoreGreedy(m, arm, x) == ThetaX(Adj(m.A[arm]), Det(m.A[arm], Dim), m.b[arm], x)

\* predict_expectations of the LinUCB learner: the upper confidence bound
UCBScore(m, arm, x) ==
    LET adj == Adj(m.A[arm])
        det == Det(m.A[arm], Dim)
    IN  ThetaX(adj, det, m.b[arm], x) + Bonus(adj, det, x)

DefaultScore == Scale \div 2

CandidateScore(m, x, candidate) ==
    LET arm == GetArmFromCandidate(candidate)
    IN  IF arm \in ARMS THEN UCBScore(m, arm, x) ELSE DefaultScore

\* the selection without step 2: the scores are read from the model
\* whether it is fitted or not
LinUCBSelectUnguarded(m, context, candidates) ==
    LET x == EnsureShape(context)
        n == Len(candidates)
        scores == Listed([i \in 1..n |-> CandidateScore(m, x, candidates[i])], n)
    IN  {[idx |-> k - 1, score |-> scores[k]] :
            k \in {i \in 1..n : \A j \in 1..n : scores[j] <= scores[i]}}

\* the (0-based index, score) pairs LINUCB_SELECT may return
LinUCBSelect(m, context, candidates) ==
    LET x == EnsureShape(context)
        n == Len(candidates)
        scores == Listed([i \in 1..n |-> CandidateScore(m, x, candidates[i])], n)
    IN  IF ~m.is_fitted
        THEN {[idx |-> i - 1, score |-> DefaultScore] : i \in 1..n}
        ELSE {[idx |-> k - 1, score |-> scores[k]] :
                 k \in {i \in 1..n : \A j \in 1..n : scores[j] <= scores[i]}}

(***************************************************************************)
(* HierarchicalBandit                                                      *)
(***************************************************************************)
NoSelection == [idx |-> -1, score |-> 0]

\* the lookup that hands out a new model even for a user who has one
GetOrCreateFreshUserModel(user_models, user_id) == NewModel

GetOrCreateUserModel(user_models, user_id) ==
    IF user_id \in DOMAIN user_models THEN user_models[user_id] ELSE NewModel

\* blend <- min(n_updates / 50, MAX_BLEND), as the fraction num / den
BlendWeight(n_updates) ==
    IF n_updates * MAX_BLEND_DEN <= MAX_BLEND_NUM * BLEND_DIVISOR
    THEN [num |-> n_updates, den |-> BLEND_DIVISOR]
    ELSE [num |-> MAX_BLEND_NUM, den |-> MAX_BLEND_DEN]

\* the comparison with the two weights exchanged
BlendSwapped(n_updates, global_sel, user_sel) ==
    LET blend == BlendWeight(n_updates)
    IN  IF user_sel.score * (blend.den - blend.num) > global_sel.score * blend.num
        THEN user_sel
        ELSE global_sel

\* user_score * blend > global_score * (1 - blend)
Blend(n_updates, global_sel, user_sel) ==
    LET blend == BlendWeight(n_updates)
    IN  IF user_sel.score * blend.num > global_sel.score * (blend.den - blend.num)
        THEN user_sel
        ELSE global_sel

\* the selection without the cold-start guard
HierarchicalSelectNoGuard(global_model, user_model, context, candidates) ==
    {[global |-> g, user |-> s, result |-> Blend(user_model.n_updates, g, s)] :
        g \in LinUCBSelect(global_model, context, candidates),
        s \in LinUCBSelect(user_model, context, candidates)}

\* the outcomes of HIERARCHICAL_SELECT: the global pick, the user pick (if
\* one was computed) and the returned pair
HierarchicalSelect(global_model, user_model, context, candidates) ==
    LET G == LinUCBSelect(global_model, context, candidates)
    IN  IF user_model.n_updates < MIN_USER_UPDATES
        THEN {[global |-> g, user |-> NoSelection, result |-> g] : g \in G}
        ELSE {[global |-> g, user |-> s, result |-> Blend(user_model.n_updates, g, s)] :
                 g \in G, s \in LinUCBSelect(user_model, context, candidates)}

\* the update that reaches the global model only
HierarchicalUpdateGlobalOnly(bandit, user_id, context, candidate, reward) ==
    [global |-> LinUCBUpdate(bandit.global, context, candidate, reward),
     users |-> (user_id :> GetOrCreateUserModel(bandit.users, user_id)) @@ bandit.users]

\* both the global model and the user's model learn the observation
HierarchicalUpdate(bandit, user_id, context, candidate, reward) ==
    [global |-> LinUCBUpdate(bandit.global, context, candidate, reward),
     users |-> (user_id :> LinUCBUpdate(GetOrCreateUserModel(bandit.users, user_id),
                                        context, candidate, reward))
                  @@ bandit.users]


(***************************************************************************)
(* State                                                                   *)
(***************************************************************************)
VARIABLES
    bandit,     \* in-memory models: [global |-> model, users |-> [user_id -> model]]
    store,      \* model store (bandit_models): same shape, what a restart reloads
    unsaved,    \* ids of the models whose latest store write failed
    reported,   \* number of persistence failures logged so far
    call,       \* the latest call served: its inputs and what it returned
    live,       \* Update calls served since the model was started
    restarts,   \* process restarts so far
    workers,    \* request handlers running side by side: request, position, local copy
    locks,      \* who holds the lock of each model ("global" / user id), 0 if free
    feedback,   \* content_feedback rows of each user, oldest first
    served,     \* requests served by the recommendation and feedback endpoints
    habit_logs, \* daily_habit_logs rows
    card        \* the recommendation card in the browser and what it has sent

vars == <<bandit, store, unsaved, reported, call, live, restarts, workers, locks,
          feedback, served,
          habit_logs, card>>

ModelKeys == {"global"} \cup Users

NoWorkers == <<>>

Unlocked == [key \in ModelKeys |-> 0]

NoFeedback == [user_id \in Users |-> <<>>]

NoHabitLogs == {}

\* no card is shown
NoCard == [mounted |-> FALSE]

(***************************************************************************)
(* Start-up: the models are loaded from the model store, which holds what  *)
(* earlier process lifetimes learnt and saved (nothing on first start).    *)
(***************************************************************************)
EmptyBandit == [global |-> NewModel, users |-> <<>>]

FeedbackEntry(user_id, context, candidate, reward) ==
    [user |-> user_id, context |-> context, candidate |-> candidate, reward |-> reward]

\* one user's earlier feedback: 35 times "drama brought back memories"
LogLoyal == [i \in 1..35 |-> FeedbackEntry("u1", CtxStressed, CandDrama, Scale)]

\* one user's earlier feedback: drama liked 5 times in one context, disliked
\* 4 times in another
LogMixed ==
    [i \in 1..9 |->
        IF i <= 5 THEN FeedbackEntry("u1", CtxOld, CandDrama, Scale)
        ELSE FeedbackEntry("u1", CtxLong, CandDrama, 0)]

WarmLogs == {<<>>, LogMixed, LogLoyal}

RECURSIVE Replay(_, _, _)
\* the models after entries i.. of the feedback log have been learnt by b;
\* every entry learnt leaves the global model fitted
Replay(b, log, i) ==
    IF i > Len(log) THEN b
    ELSE LET learnt == HierarchicalUpdate(b, log[i].user, log[i].context,
                                          log[i].candidate, log[i].reward)
         IN  IF learnt.global.is_fitted THEN Replay(learnt, log, i + 1) ELSE b

WarmStores == {Replay(EmptyBandit, log, 1) : log \in WarmLogs}

Init ==
    /\ store \in WarmStores
    /\ bandit = store
    /\ unsaved = {}
    /\ reported = 0
    /\ call = [op |-> "start"]
    /\ live = 0
    /\ restarts = 0
    /\ workers = NoWorkers
    /\ locks = Unlocked
    /\ feedback = NoFeedback
    /\ served = 0
    /\ habit_logs = NoHabitLogs
    /\ card = NoCard

(***************************************************************************)
(* Model store writes (keyed by "global" / the user id)                    *)
(***************************************************************************)
\* the update that is undone in memory when one of its store writes fails
ApplyOrRollBack(old_bandit, new_bandit, failed) ==
    IF failed = {} THEN new_bandit ELSE old_bandit

\* the update stays in memory whatever the store writes did
ApplyInMemory(old_bandit, new_bandit, failed) == new_bandit

\* the write that saves the global model only
PersistGlobalOnly(st, new_bandit, user_id, okGlobal, okUser) ==
    [global |-> IF okGlobal THEN new_bandit.global ELSE st.global,
     users |-> st.users]

\* the store after the update of user_id's models was written; a write that
\* fails leaves the stored record as it was
Persist(st, new_bandit, user_id, okGlobal, okUser) ==
    [global |-> IF okGlobal THEN new_bandit.global ELSE st.global,
     users |-> IF okUser
               THEN (user_id :> new_bandit.users[user_id]) @@ st.users
               ELSE st.users]

FailedWrites(user_id, okGlobal, okUser) ==
    (IF okGlobal THEN {} ELSE {"global"}) \cup (IF okUser THEN {} ELSE {user_id})

(***************************************************************************)
(* Operations                                                              *)
(***************************************************************************)
\* HierarchicalBandit.update followed by the write of both models
Update(user_id, context, candidate, reward, okGlobal, okUser) ==
    /\ live < MaxUpdates
    /\ LET learnt == HierarchicalUpdate(bandit, user_id, context, candidate, reward)
       IN  /\ bandit' = ApplyInMemory(bandit, learnt,
                                      FailedWrites(user_id, okGlobal, okUser))
           /\ store' = Persist(store, learnt, user_id, okGlobal, okUser)
    /\ unsaved' = (unsaved \ {"global", user_id})
                      \cup FailedWrites(user_id, okGlobal, okUser)
    /\ reported' = reported + Cardinality(FailedWrites(user_id, okGlobal, okUser))
    /\ call' = [op |-> "update", user |-> user_id, context |-> context,
                candidate |-> candidate, reward |-> reward,
                failed |-> FailedWrites(user_id, okGlobal, okUser)]
    /\ live' = live + 1
    /\ UNCHANGED <<restarts, workers, locks, feedback, served,
          habit_logs, card>>

\* the select that starts the user's model afresh on every call
SelectFresh(user_id, context, candidates) ==
    /\ \E o \in HierarchicalSelect(bandit.global,
                                   GetOrCreateUserModel(bandit.users, user_id),
                                   context, candidates) :
          call' = [op |-> "select", user |-> user_id, context |-> context,
                   candidates |-> candidates, global |-> o.global,
                   own |-> o.user, result |-> o.result]
    /\ bandit' = [bandit EXCEPT !.users = (user_id :> NewModel) @@ @]
    /\ UNCHANGED <<store, unsaved, reported, live, restarts, workers, locks, feedback, served,
          habit_logs, card>>

\* HierarchicalBandit.select
Select(user_id, context, candidates) ==
    /\ \E o \in HierarchicalSelect(bandit.global,
                                   GetOrCreateUserModel(bandit.users, user_id),
                                   context, candidates) :
          call' = [op |-> "select", user |-> user_id, context |-> context,
                   candidates |-> candidates, global |-> o.global,
                   own |-> o.user, result |-> o.result]
    /\ bandit' = [bandit EXCEPT !.users =
                     (user_id :> GetOrCreateUserModel(bandit.users, user_id)) @@ @]
    /\ UNCHANGED <<store, unsaved, reported, live, restarts, workers, locks, feedback, served,
          habit_logs, card>>

\* the process stops and starts again: the models are reloaded from the store
Restart ==
    /\ restarts < MaxRestarts
    /\ bandit' = store
    /\ unsaved' = {}
    /\ call' = [op |-> "restart", before |-> bandit, lost |-> unsaved]
    /\ restarts' = restarts + 1
    /\ UNCHANGED <<store, reported, live, workers, locks, feedback, served,
          habit_logs, card>>

UpdateSaved ==
    \E u \in Users, x \in RawContexts, c \in UpdateCandidates, r \in Rewards :
        Update(u, x, c, r, TRUE, TRUE)

SelectOne == \E u \in Users : Select(u, CtxStressed, <<CandDrama>>)

\* feedback of every kind, with selections in between
Next == UpdateSaved \/ SelectOne

Spec == Init /\ [][Next]_vars

(***************************************************************************)
(* The same bandit asked for selections of every kind, with feedback in    *)
(* between                                                                 *)
(***************************************************************************)
UpdateSome ==
    \E u \in Users, x \in {CtxStressed, CtxOld}, c \in UpdateCandidates, r \in {0, Scale} :
        Update(u, x, c, r, TRUE, TRUE)

SelectAny ==
    \E u \in Users, x \in RawContexts, cs \in CandidateLists : Select(u, x, cs)

NextSelect == UpdateSome \/ SelectAny

SpecSelect == Init /\ [][NextSelect]_vars

(***************************************************************************)
(* The same bandit with store writes that may fail and process restarts    *)
(***************************************************************************)
UpdateStored ==
    \E u \in Users, r \in {0, Scale}, okGlobal \in BOOLEAN, okUser \in BOOLEAN :
        Update(u, CtxStressed, CandDrama, r, okGlobal, okUser)

NextStore == UpdateStored \/ SelectOne \/ Restart

SpecStore == Init /\ [][NextStore]_vars


(***************************************************************************)
(* One LinUCBBandit fed a sequence of updates (call holds the sequence)    *)
(***************************************************************************)
InitArm ==
    /\ store \in WarmStores
    /\ bandit = store
    /\ unsaved = {}
    /\ reported = 0
    /\ call = [op |-> "sequence", base |-> store.global, entries |-> <<>>]
    /\ live = 0
    /\ restarts = 0
    /\ workers = NoWorkers
    /\ locks = Unlocked
    /\ feedback = NoFeedback
    /\ served = 0
    /\ habit_logs = NoHabitLogs
    /\ card = NoCard

ArmUpdate(context, candidate, reward) ==
    /\ Len(call.entries) < MaxSequence
    /\ bandit' = [bandit EXCEPT !.global = LinUCBUpdate(@, context, candidate, reward)]
    /\ call' = [call EXCEPT !.entries =
                   Append(@, FeedbackEntry("global", context, candidate, reward))]
    /\ UNCHANGED <<store, unsaved, reported, live, restarts, workers, locks, feedback, served,
          habit_logs, card>>

NextArm ==
    \E x \in RawContexts, c \in UpdateCandidates \cup {CandWar}, r \in Rewards :
        ArmUpdate(x, c, r)

SpecArm == InitArm /\ [][NextArm]_vars

(***************************************************************************)
(* Properties                                                              *)
(***************************************************************************)
AllModels(b) == {b.global} \cup {b.users[u] : u \in DOMAIN b.users}

\* the reward as it is accumulated: 1 above 0.5, else 0
Binarized(reward) == IF 2 * reward > Scale THEN 1 ELSE 0

\* m2 is m1 after one observation (x, r) of the arm: only that arm moved, by
\* the outer product x x' in A and by r x in b
Learnt(m1, m2, arm, x, r) ==
    /\ m2.A[arm] = MatAdd(m1.A[arm], Outer(x, x))
    /\ m2.b[arm] = VecAdd(m1.b[arm], VecScale(r, x))
    /\ \A a \in ARMS \ {arm} : m2.A[a] = m1.A[a] /\ m2.b[a] = m1.b[a]

\* C1: every Update(user, context, candidate, reward) applies the same
\* (context, binarized reward) pair to the candidate's arm of the global
\* model and of that user's model, and raises that user's n_updates by one.
C1_UpdateReachesBothModels ==
    [][live' = live + 1 =>
        LET u == call'.user
            arm == GetArmFromCandidate(call'.candidate)
            x == EnsureShape(call'.context)
            r == Binarized(call'.reward)
            before == GetOrCreateUserModel(bandit.users, u)
        IN  /\ Learnt(bandit.global, bandit'.global, arm, x, r)
            /\ Learnt(before, bandit'.users[u], arm, x, r)
            /\ bandit'.users[u].n_updates = before.n_updates + 1
            /\ \A v \in DOMAIN bandit.users \ {u} : bandit'.users[v] = bandit.users[v]]_vars

\* an update of a user whose model holds less than the global model
C1_Witness ==
    /\ call.op = "update"
    /\ Binarized(call.reward) = 1
    /\ bandit.users[call.user].n_updates = 1
    /\ bandit.global.n_updates > 1

\* C2: for a user with n_updates below 10, Select returns exactly the pick
\* of the global model, whatever the user's own model holds.
C2_ColdStartReturnsGlobal ==
    call.op = "select" /\ bandit.users[call.user].n_updates < MIN_USER_UPDATES =>
        /\ call.result = call.global
        /\ call.global \in LinUCBSelect(bandit.global, call.context, call.candidates)

\* a cold-start select of a user whose own fitted model would pick otherwise
C2_Witness ==
    /\ call.op = "select"
    /\ bandit.users[call.user].n_updates < MIN_USER_UPDATES
    /\ bandit.users[call.user].is_fitted
    /\ call.result \notin LinUCBSelect(bandit.users[call.user], call.context,
                                       call.candidates)

BestByUCB(m, sel, context, candidates) ==
    LET x == EnsureShape(context)
        ucb(c) == Expectation(m, GetArmFromCandidate(c), x)
                      + Exploration(m, GetArmFromCandidate(c), x)
    IN  /\ sel.idx + 1 \in 1..Len(candidates)
        /\ sel.score = ucb(candidates[sel.idx + 1])
        /\ \A i \in 1..Len(candidates) : ucb(candidates[i]) <= sel.score

\* C4: a fitted model selects the candidate whose arm has the highest UCB
\* score (expected reward plus exploration bonus), not the highest expected
\* reward.
C4_SelectMaximisesUCB ==
    call.op = "select" =>
        /\ bandit.global.is_fitted =>
              BestByUCB(bandit.global, call.global, call.context, call.candidates)
        /\ call.own # NoSelection /\ bandit.users[call.user].is_fitted =>
              BestByUCB(bandit.users[call.user], call.own, call.context, call.candidates)

\* the selected candidate has a lower expected reward than another candidate
C4_Witness ==
    /\ call.op = "select"
    /\ bandit.global.is_fitted
    /\ \E i \in 1..Len(call.candidates) :
          Expectation(bandit.global, GetArmFromCandidate(call.candidates[i]),
                      EnsureShape(call.context))
            > Expectation(bandit.global,
                          GetArmFromCandidate(call.candidates[call.global.idx + 1]),
                          EnsureShape(call.context))

\* C5: the matrix A of every arm of every model (global and per-user, in
\* memory and stored) is symmetric positive-definite.
C5_ASymmetricPositiveDefinite ==
    \A m \in AllModels(bandit) \cup AllModels(store) :
        \A a \in ARMS : IsSymmetric(m.A[a]) /\ IsPositiveDefinite(m.A[a])

\* an arm that has learnt a context with two non-zero features
C5_Witness ==
    /\ call.op = "update"
    /\ bandit.global.A[GetArmFromCandidate(call.candidate)][1][Dim] # 0
    /\ bandit.global.A[GetArmFromCandidate(call.candidate)] # Identity

ArmUpdated(m, arm) == m.A[arm] # Identity

\* every arm that a candidate of the list maps to has learnt an observation
ArmsUpdated(m, candidates) ==
    \A i \in 1..Len(candidates) :
        LET arm == GetArmFromCandidate(candidates[i])
        IN  arm \in ARMS => ArmUpdated(m, arm)

\* C27 (as stated): every arm whose expected reward enters a score of the
\* selection has received at least one update; otherwise the random pick
\* with the placeholder score 0.5 is returned.
C27_NeverScoresUnfittedArm ==
    call.op = "select" =>
        /\ IF ArmsUpdated(bandit.global, call.candidates)
           THEN BestByUCB(bandit.global, call.global, call.context, call.candidates)
           ELSE call.global.score = DefaultScore
        /\ call.own # NoSelection =>
              IF ArmsUpdated(bandit.users[call.user], call.candidates)
              THEN BestByUCB(bandit.users[call.user], call.own, call.context,
                             call.candidates)
              ELSE call.own.score = DefaultScore

\* what one model returned: a model without any update returns a candidate
\* with the placeholder score; a model with an update returns the score it
\* predicts for the candidate it picked
GuardedByModel(m, sel, context, candidates) ==
    /\ m.is_fitted = (m.n_updates >= 1)
    /\ sel.idx + 1 \in 1..Len(candidates)
    /\ IF m.is_fitted
       THEN sel.score = CandidateScore(m, EnsureShape(context),
                                       candidates[sel.idx + 1])
       ELSE /\ sel.score = DefaultScore
            /\ \A arm \in ARMS : ~ArmUpdated(m, arm)

\* C27 (amended): the fitted flag belongs to the model, not to the arm.  A
\* model (global or of the user) whose predictions enter a score has
\* received at least one update, and a model without any update returns the
\* random pick with the placeholder score 0.5.
C27_NeverScoresUnfittedModel ==
    call.op = "select" =>
        /\ GuardedByModel(bandit.global, call.global, call.context, call.candidates)
        /\ call.own # NoSelection =>
              GuardedByModel(bandit.users[call.user], call.own, call.context,
                             call.candidates)

\* the fitted global model picked a candidate of an arm that has never been
\* updated
C27_Witness ==
    /\ call.op = "select"
    /\ bandit.global.is_fitted
    /\ ~ArmUpdated(bandit.global,
                   GetArmFromCandidate(call.candidates[call.global.idx + 1]))
    /\ call.global.score # DefaultScore

RECURSIVE SumUpdates(_, _)
\* the update counts of the models of the users in ids, added up
SumUpdates(user_models, ids) ==
    IF ids = {} THEN 0
    ELSE LET user_id == CHOOSE u \in ids : TRUE
         IN  user_models[user_id].n_updates
                 + SumUpdates(user_models, ids \ {user_id})

RECURSIVE OuterSum(_, _, _)
\* sum of x x' over the first n entries that belong to the arm
OuterSum(entries, arm, n) ==
    IF n = 0 THEN Mat([i \in Idx |-> [j \in Idx |-> 0]])
    ELSE IF GetArmFromCandidate(entries[n].candidate) = arm
         THEN MatAdd(OuterSum(entries, arm, n - 1),
                     Outer(EnsureShape(entries[n].context),
                           EnsureShape(entries[n].context)))
         ELSE OuterSum(entries, arm, n - 1)

RECURSIVE RewardSum(_, _, _)
\* sum of r x over the first n entries that belong to the arm
RewardSum(entries, arm, n) ==
    IF n = 0 THEN ZeroVec
    ELSE IF GetArmFromCandidate(entries[n].candidate) = arm
         THEN VecAdd(RewardSum(entries, arm, n - 1),
                     VecScale(Binarized(entries[n].reward),
                              EnsureShape(entries[n].context)))
         ELSE RewardSum(entries, arm, n - 1)

\* C7: updates applied one after the other give the same A and b as one
\* update carrying the summed outer products and the summed reward-weighted
\* contexts.
C7_UpdatesAccumulate ==
    call.op = "sequence" =>
        \A a \in ARMS :
            /\ bandit.global.A[a] =
                  MatAdd(call.base.A[a], OuterSum(call.entries, a, Len(call.entries)))
            /\ bandit.global.b[a] =
                  VecAdd(call.base.b[a], RewardSum(call.entries, a, Len(call.entries)))

\* two updates of one arm with different contexts on a model fitted before
C7_Witness ==
    /\ call.op = "sequence"
    /\ Len(call.entries) = 2
    /\ call.base.is_fitted
    /\ GetArmFromCandidate(call.entries[1].candidate)
          = GetArmFromCandidate(call.entries[2].candidate)
    /\ EnsureShape(call.entries[1].context) # EnsureShape(call.entries[2].context)
    /\ Binarized(call.entries[1].reward) # Binarized(call.entries[2].reward)


NoModel == [absent |-> TRUE]

\* the model kept under a key ("global" or a user id), NoModel if none
ModelOf(b, key) ==
    IF key = "global" THEN b.global
    ELSE IF key \in DOMAIN b.users THEN b.users[key] ELSE NoModel

\* the reloaded model is the one memory held; a user model that never learnt
\* anything was never written and is recreated on demand
SameAfterReload(after, before) ==
    after = before \/ (before = NewModel /\ after = NoModel)

C10_FailedWriteKeepsUpdateInMemory ==
    [][/\ live' = live + 1 /\ call'.failed # {} =>
             LET u == call'.user
                 arm == GetArmFromCandidate(call'.candidate)
                 x == EnsureShape(call'.context)
                 r == Binarized(call'.reward)
             IN  /\ Learnt(bandit.global, bandit'.global, arm, x, r)
                 /\ Learnt(GetOrCreateUserModel(bandit.users, u), bandit'.users[u],
                           arm, x, r)
                 /\ bandit'.global.n_updates = bandit.global.n_updates + 1
                 /\ reported' >= reported + 1
       /\ reported' >= reported
       /\ restarts' = restarts /\ live' = live =>
             \A key \in ModelKeys :
                 ModelOf(bandit, key) # NoModel => ModelOf(bandit', key) = ModelOf(bandit, key)]_vars

\* a selection served from models that hold an update whose writes failed
C10_Witness ==
    /\ call.op = "select"
    /\ unsaved = {"global", call.user}
    /\ reported = 2
    /\ call.user \in DOMAIN store.users
    /\ bandit.global # store.global
    /\ bandit.users[call.user].n_updates = ModelOf(store, call.user).n_updates + 1

(***************************************************************************)
(* Calls served side by side under the locking discipline: one lock per    *)
(* user around update and select of that user's model, and a separate lock *)
(* around the shared global model.  Each worker serves one request; a      *)
(* model is read into the worker's local copy and written back in a later  *)
(* step, so a missing lock shows as a lost update.                         *)
(***************************************************************************)
WorkerIds == 1..MaxWorkers

Requests ==
    [op : {"update"}, user : Users, reward : {0, Scale}]
        \cup [op : {"select"}, user : Users, reward : {0}]

InitConc ==
    /\ store \in WarmStores
    /\ bandit = store
    /\ unsaved = {}
    /\ reported = 0
    /\ call = [op |-> "concurrent", base |-> store]
    /\ live = 0
    /\ restarts = 0
    /\ workers \in [WorkerIds -> [request : Requests, pc : {"idle"}, seen : {NoModel}]]
    /\ locks = Unlocked
    /\ feedback = NoFeedback
    /\ served = 0
    /\ habit_logs = NoHabitLogs
    /\ card = NoCard

\* every lock is free for the taking
LockFreeAlways(key) == TRUE

LockFree(key) == locks[key] = 0

At(w, pc) == workers[w].pc = pc

Goto(w, pc, seen) == workers' = [workers EXCEPT ![w].pc = pc, ![w].seen = seen]

\* update and select both start by taking the lock of their user
AcquireUser(w) ==
    /\ At(w, "idle")
    /\ LockFree(workers[w].request.user)
    /\ locks' = [locks EXCEPT ![workers[w].request.user] = w]
    /\ Goto(w, "user", NoModel)
    /\ UNCHANGED <<bandit, store, unsaved, reported, call, live, restarts, feedback, served,
          habit_logs, card>>

\* update: take the lock of the global model
AcquireGlobal(w) ==
    /\ At(w, "user")
    /\ workers[w].request.op = "update"
    /\ LockFree("global")
    /\ locks' = [locks EXCEPT !["global"] = w]
    /\ Goto(w, "global", NoModel)
    /\ UNCHANGED <<bandit, store, unsaved, reported, call, live, restarts, feedback, served,
          habit_logs, card>>

ReadGlobal(w) ==
    /\ At(w, "global")
    /\ Goto(w, "read", bandit.global)
    /\ UNCHANGED <<bandit, store, unsaved, reported, call, live, restarts, locks, feedback, served,
          habit_logs, card>>

\* the global model learns the feedback, is saved, and its lock is released
WriteGlobal(w) ==
    /\ At(w, "read")
    /\ bandit' = [bandit EXCEPT !.global =
                     LinUCBUpdate(workers[w].seen, CtxStressed, CandDrama,
                                  workers[w].request.reward)]
    /\ store' = [store EXCEPT !.global = bandit'.global]
    /\ locks' = [locks EXCEPT !["global"] = 0]
    /\ Goto(w, "written", NoModel)
    /\ UNCHANGED <<unsaved, reported, call, live, restarts, feedback, served,
          habit_logs, card>>

ReadUser(w) ==
    /\ At(w, "written")
    /\ Goto(w, "mine", GetOrCreateUserModel(bandit.users, workers[w].request.user))
    /\ UNCHANGED <<bandit, store, unsaved, reported, call, live, restarts, locks, feedback, served,
          habit_logs, card>>

\* the user's model learns the feedback, is saved, and its lock is released
WriteUser(w) ==
    /\ At(w, "mine")
    /\ bandit' = [bandit EXCEPT !.users =
                     (workers[w].request.user :>
                          LinUCBUpdate(workers[w].seen, CtxStressed, CandDrama,
                                       workers[w].request.reward)) @@ @]
    /\ store' = [store EXCEPT !.users =
                    (workers[w].request.user :>
                         bandit'.users[workers[w].request.user]) @@ @]
    /\ locks' = [locks EXCEPT ![workers[w].request.user] = 0]
    /\ Goto(w, "done", NoModel)
    /\ UNCHANGED <<unsaved, reported, call, live, restarts, feedback, served,
          habit_logs, card>>

\* select: under the user's lock, with no writer on the global model, score
\* the candidates; the user's model is created in memory if it was missing
SelectLocked(w) ==
    /\ At(w, "user")
    /\ workers[w].request.op = "select"
    /\ LockFree("global")
    /\ \E o \in HierarchicalSelect(bandit.global,
                                   GetOrCreateUserModel(bandit.users, workers[w].request.user),
                                   CtxStressed, <<CandDrama>>) :
          Goto(w, "done", o.result)
    /\ bandit' = [bandit EXCEPT !.users =
                     (workers[w].request.user :>
                          GetOrCreateUserModel(bandit.users, workers[w].request.user)) @@ @]
    /\ locks' = [locks EXCEPT ![workers[w].request.user] = 0]
    /\ UNCHANGED <<store, unsaved, reported, call, live, restarts, feedback, served,
          habit_logs, card>>

NextConc ==
    \E w \in WorkerIds :
        \/ AcquireUser(w)
        \/ AcquireGlobal(w)
        \/ ReadGlobal(w)
        \/ WriteGlobal(w)
        \/ ReadUser(w)
        \/ WriteUser(w)
        \/ SelectLocked(w)

SpecConc == InitConc /\ [][NextConc]_vars

\* the models after one request was served alone
Serve(b, request) ==
    IF request.op = "update"
    THEN HierarchicalUpdate(b, request.user, CtxStressed, CandDrama, request.reward)
    ELSE [b EXCEPT !.users =
             (request.user :> GetOrCreateUserModel(b.users, request.user)) @@ @]

RECURSIVE RunInOrder(_, _, _)
\* the models after the workers' requests order[i], order[i+1], ... were
\* served one after the other starting from b
RunInOrder(b, order, i) ==
    IF i > Len(order) THEN b
    ELSE RunInOrder(Serve(b, workers[order[i]].request), order, i + 1)

SerialOrders ==
    {order \in [WorkerIds -> WorkerIds] :
        \A i, j \in WorkerIds : order[i] = order[j] => i = j}

HoldsUser(w) == workers[w].pc \in {"user", "global", "read", "written", "mine"}

HoldsGlobal(w) == workers[w].pc \in {"global", "read"}

AllDone == \A w \in WorkerIds : At(w, "done")

\* C8: an update for a user is never under way together with another update
\* or select for the same user, no two updates work on the global model at
\* once, and when all the concurrent calls have returned every model (A, b,
\* n_updates) is what running the same calls one after the other, in some
\* order, gives
C8_ConcurrentCallsSerialise ==
    /\ \A w1, w2 \in WorkerIds :
          /\ (w1 # w2 /\ HoldsUser(w1) /\ HoldsUser(w2))
                 => workers[w1].request.user # workers[w2].request.user
          /\ (HoldsGlobal(w1) /\ HoldsGlobal(w2)) => w1 = w2
    /\ AllDone =>
          \E order \in SerialOrders :
              /\ bandit.global = RunInOrder(call.base, order, 1).global
              /\ \A u \in Users :
                    GetOrCreateUserModel(bandit.users, u)
                        = GetOrCreateUserModel(RunInOrder(call.base, order, 1).users, u)

\* two updates of different users, both liked, have both returned
C8_Witness ==
    /\ AllDone
    /\ \E w1, w2 \in WorkerIds :
          /\ workers[w1].request.op = "update"
          /\ workers[w2].request.op = "update"
          /\ workers[w1].request.user # workers[w2].request.user
          /\ workers[w1].request.reward = Scale
          /\ workers[w2].request.reward = Scale
    /\ bandit.global.n_updates >= call.base.global.n_updates + 2

(***************************************************************************)
(* Context vector of a request                                             *)
(***************************************************************************)
EMOTIONS == <<"anger", "fear", "joy", "love", "neutral", "sadness", "surprise">>

\* a birth year of the user_preferences table: the column is nullable
BirthYear(year) == [known |-> TRUE, year |-> year]

NoBirthYear == [known |-> FALSE, year |-> 0]

\* u1 joined the treatment group and gave a birth year, u2 the control group
UserPreferences == [user_id \in Users |->
    [birth_year |-> IF user_id = "u1" THEN BirthYear(1960) ELSE NoBirthYear]]

FetchUserPreferences(user_id) == UserPreferences[user_id]

\* the latest limit rows of a user's feedback, oldest first
FetchRecentFeedback(rows, limit) ==
    IF Len(rows) <= limit THEN rows
    ELSE SubSeq(rows, Len(rows) - limit + 1, Len(rows))

Positives(rows) == Cardinality({i \in DOMAIN rows : rows[i].brings_back_memories})

\* the rates CalculatePositiveRate can return, in context units: positives
\* over total, and any rate for a user without feedback (0 / 0)
CalculatePositiveRate(recent_feedback) ==
    IF recent_feedback = <<>> THEN 0..ContextUnit
    ELSE {(ContextUnit * Positives(recent_feedback)) \div Len(recent_feedback)}

Padded(features) ==
    features \o [i \in 1..(CONTEXT_DIM - Min(Len(features), CONTEXT_DIM)) |-> 0]

\* the context without the default of the birth year feature: nothing is
\* built for a user whose birth year is unknown
BuildContextFeaturesStrict(stress_score, emotion, user_positive_rate, birth_year) ==
    IF ~birth_year.known THEN <<>>
    ELSE SubSeq(Padded(<<stress_score>>
                       \o [i \in 1..Len(EMOTIONS) |->
                              IF EMOTIONS[i] = emotion THEN ContextUnit ELSE 0]
                       \o <<user_positive_rate>>
                       \o <<((birth_year.year - BIRTH_YEAR_CENTER) * ContextUnit)
                                \div BIRTH_YEAR_SCALE>>),
                1, CONTEXT_DIM)

BuildContextFeatures(stress_score, emotion, user_positive_rate, birth_year) ==
    LET normalized_birth_year ==
            IF birth_year.known
            THEN ((birth_year.year - BIRTH_YEAR_CENTER) * ContextUnit)
                     \div BIRTH_YEAR_SCALE
            ELSE 0
        features ==
            <<stress_score>>
            \o [i \in 1..Len(EMOTIONS) |->
                   IF EMOTIONS[i] = emotion THEN ContextUnit ELSE 0]
            \o <<user_positive_rate>>
            \o <<normalized_birth_year>>
    IN  SubSeq(Padded(features), 1, CONTEXT_DIM)

(***************************************************************************)
(* Feedback endpoint (POST /api/habits/feedback) and the engine's          *)
(* PROCESS_FEEDBACK behind it                                              *)
(***************************************************************************)
\* a content item as the client reports it
Content(content_type, content_id, content_year, content_genre) ==
    [type |-> content_type, id |-> content_id, year |-> content_year,
     genre |-> content_genre]

FeedbackContents ==
    {Content("movie", 1, 1975, <<Part("drama", FALSE, FALSE)>>),
     Content("song", 2, 1978,
             <<Part("rock", TRUE, TRUE), Part("pop", FALSE, FALSE)>>)}

FeedbackRow(user_id, content, brings_back_memories) ==
    [user |-> user_id, content_type |-> content.type, content_id |-> content.id,
     brings_back_memories |-> brings_back_memories]

\* the bandit after PROCESS_FEEDBACK learnt the answer; rows are the user's
\* feedback rows at the time of the call
ProcessFeedback(b, rows, user_id, content, brings_back_memories) ==
    LET prefs == FetchUserPreferences(user_id)
        recent_feedback == FetchRecentFeedback(rows, RECENT_LIMIT)
        candidate == [type |-> content.type, id |-> content.id,
                      year |-> content.year, genre |-> content.genre,
                      genres |-> content.genre]
        reward == IF brings_back_memories THEN Scale ELSE 0
    IN  {[context |-> BuildContextFeatures(1, "neutral", user_positive_rate,
                                           prefs.birth_year),
          candidate |-> candidate,
          reward |-> reward,
          bandit |-> HierarchicalUpdate(
                         b, user_id,
                         BuildContextFeatures(1, "neutral", user_positive_rate,
                                              prefs.birth_year),
                         candidate, reward)] :
            user_positive_rate \in CalculatePositiveRate(recent_feedback)}

\* a catch block that passes the engine's failure on to the client
BanditUpdateFailureRethrown(user_id, content, brings_back_memories) ==
    /\ call' = [op |-> "feedback", user |-> user_id, content |-> content,
                brings_back_memories |-> brings_back_memories,
                stored |-> TRUE, updated |-> FALSE, status |-> "error",
                logged |-> TRUE]
    /\ UNCHANGED <<bandit, store, unsaved, live>>

\* the catch block around the call to the engine: the failure is logged and
\* the handler goes on to answer 'Interaction recorded'
BanditUpdateFailed(user_id, content, brings_back_memories) ==
    /\ call' = [op |-> "feedback", user |-> user_id, content |-> content,
                brings_back_memories |-> brings_back_memories,
                stored |-> TRUE, updated |-> FALSE, status |-> "recorded",
                logged |-> TRUE]
    /\ UNCHANGED <<bandit, store, unsaved, live>>

\* the handler that asks the engine first and stores the row afterwards
RecordFeedbackEngineFirst(user_id, content, brings_back_memories, okInsert, okEngine) ==
    /\ served < MaxRequests
    /\ served' = served + 1
    /\ UNCHANGED <<habit_logs, card>>
    /\ IF okEngine
       THEN \E learnt \in ProcessFeedback(bandit, feedback[user_id], user_id, content,
                                          brings_back_memories) :
               /\ bandit' = learnt.bandit
               /\ store' = Persist(store, learnt.bandit, user_id, TRUE, TRUE)
               /\ unsaved' = unsaved \ {"global", user_id}
               /\ live' = live + 1
               /\ feedback' = IF okInsert
                              THEN [feedback EXCEPT ![user_id] =
                                       Append(@, FeedbackRow(user_id, content,
                                                             brings_back_memories))]
                              ELSE feedback
               /\ call' = [op |-> "feedback", user |-> user_id, content |-> content,
                           brings_back_memories |-> brings_back_memories,
                           stored |-> okInsert, updated |-> TRUE,
                           status |-> IF okInsert THEN "recorded" ELSE "error",
                           logged |-> FALSE,
                           context |-> learnt.context, reward |-> learnt.reward,
                           candidate |-> learnt.candidate]
       ELSE /\ feedback' = feedback
            /\ call' = [op |-> "feedback", user |-> user_id, content |-> content,
                        brings_back_memories |-> brings_back_memories,
                        stored |-> FALSE, updated |-> FALSE, status |-> "error",
                        logged |-> FALSE]
            /\ UNCHANGED <<bandit, store, unsaved, live>>
    /\ UNCHANGED <<reported, restarts, workers, locks>>

\* the handler: the row is inserted first (a failed insert fails the
\* request), then the engine is asked to learn from it; a failure of the
\* engine is logged and the request still answers 'Interaction recorded'
RecordFeedback(user_id, content, brings_back_memories, okInsert, okEngine) ==
    /\ served < MaxRequests
    /\ served' = served + 1
    /\ UNCHANGED <<habit_logs, card>>
    /\ IF ~okInsert
       THEN /\ call' = [op |-> "feedback", user |-> user_id, content |-> content,
                        brings_back_memories |-> brings_back_memories,
                        stored |-> FALSE, updated |-> FALSE, status |-> "error",
                        logged |-> FALSE]
            /\ UNCHANGED <<bandit, store, unsaved, live, feedback>>
       ELSE /\ feedback' = [feedback EXCEPT ![user_id] =
                               Append(@, FeedbackRow(user_id, content,
                                                     brings_back_memories))]
            /\ IF okEngine
               THEN \E learnt \in ProcessFeedback(bandit, feedback'[user_id], user_id,
                                                  content, brings_back_memories) :
                       /\ bandit' = learnt.bandit
                       /\ store' = Persist(store, learnt.bandit, user_id, TRUE, TRUE)
                       /\ unsaved' = unsaved \ {"global", user_id}
                       /\ live' = live + 1
                       /\ call' = [op |-> "feedback", user |-> user_id,
                                   content |-> content,
                                   brings_back_memories |-> brings_back_memories,
                                   stored |-> TRUE, updated |-> TRUE,
                                   status |-> "recorded", logged |-> FALSE,
                                   context |-> learnt.context,
                                   reward |-> learnt.reward,
                                   candidate |-> learnt.candidate]
               ELSE BanditUpdateFailed(user_id, content, brings_back_memories)
    /\ UNCHANGED <<reported, restarts, workers, locks>>

(***************************************************************************)
(* The feedback endpoint serving requests whose insert or engine call may  *)
(* fail, for users with and without earlier feedback                       *)
(***************************************************************************)
\* u1's earlier rows: one more than a request fetches; the oldest is about
\* item 22, the later ones about item 21
SeenRows ==
    [i \in 1..(RECENT_LIMIT + 1) |->
        [user |-> "u1", content_type |-> "movie",
         content_id |-> IF i = 1 THEN 22 ELSE 21,
         brings_back_memories |-> i % 2 = 0]]

WarmFeedback == {NoFeedback, [NoFeedback EXCEPT !["u1"] = SeenRows]}

InitFeedback ==
    /\ store \in WarmStores
    /\ bandit = store
    /\ unsaved = {}
    /\ reported = 0
    /\ call = [op |-> "start"]
    /\ live = 0
    /\ restarts = 0
    /\ workers = NoWorkers
    /\ locks = Unlocked
    /\ feedback \in WarmFeedback
    /\ served = 0
    /\ habit_logs = NoHabitLogs
    /\ card = NoCard

RecordAny ==
    \E u \in Users, c \in FeedbackContents, brings_back_memories \in BOOLEAN,
       okInsert \in BOOLEAN, okEngine \in BOOLEAN :
        RecordFeedback(u, c, brings_back_memories, okInsert, okEngine)

NextFeedback == RecordAny

SpecFeedback == InitFeedback /\ [][NextFeedback]_vars

\* a feedback request was served by this step
FeedbackServed == served' = served + 1 /\ call'.op = "feedback"

\* the step taught the bandit one observation
Taught == bandit'.global.n_updates = bandit.global.n_updates + 1

\* C11 (as stated): whenever the write of the feedback event fails, the
\* bandit update has been applied and stays applied, and whenever the update
\* has been applied the request answers with success.
C11_UpdateSurvivesEventWriteFailure ==
    [][FeedbackServed =>
          /\ (Taught => call'.status = "recorded")
          /\ (~call'.stored => Taught)]_vars

\* C11 (amended): the feedback event is written first.  The request answers
\* with success exactly when the event was stored, so whenever the bandit
\* update has been applied; a failed event write fails the request and
\* leaves every model as it was; a failed bandit update leaves the stored
\* event in place, is logged and is neither retried nor reported.
C11_EventStoredBeforeUpdate ==
    [][FeedbackServed =>
          /\ (call'.status = "recorded") = call'.stored
          /\ (Taught => call'.status = "recorded")
          /\ (~call'.stored =>
                 /\ call'.status = "error"
                 /\ bandit' = bandit /\ store' = store /\ feedback' = feedback)
          /\ (call'.stored =>
                 /\ Len(feedback'[call'.user]) = Len(feedback[call'.user]) + 1
                 /\ feedback'[call'.user][Len(feedback'[call'.user])].content_id
                        = call'.content.id)
          /\ (call'.stored /\ ~Taught =>
                 /\ bandit' = bandit /\ store' = store
                 /\ call'.logged /\ live' = live)]_vars

\* a request answered 'Interaction recorded' although the engine call failed
C11_Witness ==
    /\ call.op = "feedback"
    /\ call.status = "recorded"
    /\ call.stored /\ ~call.updated /\ call.logged
    /\ Len(feedback[call.user]) > 0
    /\ live = 0

\* the engine call of the request served by this step failed
BanditCallFailed == FeedbackServed /\ call'.logged

\* C25: a failure of the call that forwards the interaction to the bandit
\* service never fails the request: the row inserted beforehand stays stored
\* as the user's latest row, the earlier rows stay as they were, and the
\* handler answers 'Interaction recorded'.
C25_BanditFailureNeverFailsRequest ==
    [][BanditCallFailed =>
          /\ call'.status = "recorded"
          /\ Len(feedback'[call'.user]) = Len(feedback[call'.user]) + 1
          /\ SubSeq(feedback'[call'.user], 1, Len(feedback[call'.user]))
                 = feedback[call'.user]
          /\ LET row == feedback'[call'.user][Len(feedback'[call'.user])]
             IN  /\ row.user = call'.user
                 /\ row.content_type = call'.content.type
                 /\ row.content_id = call'.content.id
                 /\ row.brings_back_memories = call'.brings_back_memories
          /\ \A u \in Users \ {call'.user} : feedback'[u] = feedback[u]]_vars

\* two requests in a row whose engine call failed: both rows are stored and
\* the second request is answered 'Interaction recorded'
C25_Witness ==
    /\ call.op = "feedback"
    /\ call.logged /\ ~call.updated
    /\ call.status = "recorded"
    /\ served = 2 /\ live = 0
    /\ call.user = "u2"
    /\ Len(feedback["u2"]) = 2
    /\ feedback["u2"][2].content_id = call.content.id

(***************************************************************************)
(* Nostalgia score (NOSTALGIA_SCORE), computed in units of 1/Fine and      *)
(* rounded to thousandths as the source rounds it.  exp and log are        *)
(* tabulated.                                                              *)
(***************************************************************************)
Fine == 10000
PEAK_AGE == 13
WIDTH == 8
BASE_WEIGHT == 7000          \* 0.7
POP_BOOST == 3000            \* 0.3
CULTURAL_WEIGHT == 4000      \* 0.4
LN10 == 23026                \* log(10)

\* exp(-(d^2) / (2 * WIDTH^2)) for d = 0, 1, ...
GAUSS ==
    <<10000, 9922, 9692, 9321, 8825, 8226, 7548, 6819, 6065, 5311, 4578,
      3886, 3247, 2671, 2163, 1724, 1353, 1046, 796, 596, 439, 319, 228,
      160, 111, 76, 51, 34, 22, 14, 9, 5, 3, 2, 1, 1>>

\* exp(-PREBIRTH_DECAY * k) for k = 0, 1, ..., 30
DECAY ==
    <<10000, 9704, 9418, 9139, 8869, 8607, 8353, 8106, 7866, 7634, 7408,
      7189, 6977, 6771, 6570, 6376, 6188, 6005, 5827, 5655, 5488, 5326,
      5169, 5016, 4868, 4724, 4584, 4449, 4317, 4190, 4066>>

Abs(n) == IF n < 0 THEN -n ELSE n

Gauss(d) == IF d < Len(GAUSS) THEN GAUSS[d + 1] ELSE 0

RECURSIVE Decay(_)
\* a pre-birth factor that grows with the distance from birth
DecayReversed(k) == Fine + k

Decay(k) ==
    IF k < Len(DECAY) THEN DECAY[k + 1]
    ELSE (DECAY[Len(DECAY)] * Decay(k - (Len(DECAY) - 1))) \div Fine

\* the age score with its peak at birth instead of PEAK_AGE
AgeNostalgiaPeakAtBirth(age_at_release) ==
    IF age_at_release >= 0
    THEN Gauss(age_at_release)
    ELSE (Gauss(0) * Decay(Abs(age_at_release))) \div Fine

AGE_NOSTALGIA(age_at_release) ==
    IF age_at_release >= 0
    THEN Gauss(Abs(age_at_release - PEAK_AGE))
    ELSE (Gauss(Abs(0 - PEAK_AGE)) * Decay(Abs(age_at_release))) \div Fine

RECURSIVE Digits(_)
Digits(n) == IF n < 10 THEN 0 ELSE 1 + Digits(n \div 10)

\* log(1 + n) for the counts 9, 99, 999, ... (1 + n a power of ten)
Log1p(n) == LN10 * Digits(n + 1)

POPULARITY_SCORE(rating_count, max_count, use_linear) ==
    IF rating_count <= 0 \/ max_count <= 0 THEN 0
    ELSE IF use_linear THEN Min(Fine, (rating_count * Fine) \div max_count)
    ELSE (Log1p(rating_count) * Fine) \div Log1p(max_count)

\* the score without step 6's clamp
NostalgiaScoreUnclamped(birth_year, release_year, rating_count, max_count, use_linear) ==
    LET age_at_release == release_year - birth_year
        age_score == AGE_NOSTALGIA(age_at_release)
        pop_score == POPULARITY_SCORE(rating_count, max_count, use_linear)
        personal == (age_score * (BASE_WEIGHT + (POP_BOOST * pop_score) \div Fine))
                        \div Fine
        cultural == IF age_at_release < 0
                    THEN (pop_score * CULTURAL_WEIGHT) \div Fine ELSE 0
    IN  (personal + cultural + 5) \div 10

NOSTALGIA_SCORE(birth_year, release_year, rating_count, max_count, use_linear) ==
    LET age_at_release == release_year - birth_year
        age_score == AGE_NOSTALGIA(age_at_release)
        pop_score == POPULARITY_SCORE(rating_count, max_count, use_linear)
        personal == (age_score * (BASE_WEIGHT + (POP_BOOST * pop_score) \div Fine))
                        \div Fine
        cultural == IF age_at_release < 0
                    THEN (pop_score * CULTURAL_WEIGHT) \div Fine ELSE 0
        final_score == personal + cultural
        score == Min(Fine, IF final_score < 0 THEN 0 ELSE final_score)
    IN  (score + 5) \div 10

(***************************************************************************)
(* Recommendation pipeline (GET_RECOMMENDATION)                            *)
(***************************************************************************)
MIN_NOSTALGIA_SCORE == 300   \* 0.3 in thousandths
TOP_K == 5
MOVIE_MAX_COUNT == 99999
SONG_MAX_COUNT == 100

\* a row of a recommender's result: score is the similarity in Scale units
Item(content_type, id, genre, year, count, score) ==
    [type |-> content_type, id |-> id, genre |-> genre, year |-> year,
     count |-> count, score |-> score]

Drama == <<Part("drama", FALSE, FALSE)>>

\* eight films of one arm: two of them tie for the fifth place, item 1 is
\* the most similar, item 3 (a war film) the least
MoviesSeventies ==
    <<Item("movie", 11, Drama, 1973, 9999, 95),
      Item("movie", 15, Drama, 1971, 999, 75),
      Item("movie", 12, Drama, 1974, 9999, 90),
      Item("movie", 3, <<Part("war", TRUE, FALSE)>>, 1973, 99, 60),
      Item("movie", 13, Drama, 1972, 999, 85),
      Item("movie", 16, Drama, 1976, 999, 75),
      Item("movie", 1, Drama, 1975, 99999, 99),
      Item("movie", 14, Drama, 1975, 99, 80)>>

\* recent films: no nostalgia for a user born in 1960
MoviesRecent ==
    <<Item("movie", 21, <<Part("comedy", FALSE, FALSE)>>, 2012, 9999, 50),
      Item("movie", 22, <<Part("action", FALSE, FALSE), Part("comedy", FALSE, FALSE)>>,
           2014, 99, 45)>>

MovieResults == {<<>>, SubSeq(MoviesRecent, 1, 1), MoviesRecent, MoviesSeventies}

SongResults ==
    {<<>>,
     <<Item("song", 2, <<Part("rock", TRUE, TRUE), Part("pop", FALSE, FALSE)>>,
            1978, 80, 88),
       Item("song", 31, <<>>, 2014, 90, 40)>>}

MovieCandidate(birth_year, movie) ==
    [type |-> "movie", id |-> movie.id, genre |-> movie.genre, year |-> movie.year,
     nostalgia_score |-> NOSTALGIA_SCORE(birth_year, movie.year, movie.count,
                                         MOVIE_MAX_COUNT, FALSE),
     similarity_score |-> movie.score]

SongCandidate(birth_year, song) ==
    [type |-> "song", id |-> song.id, genre |-> song.genre, year |-> song.year,
     nostalgia_score |-> NOSTALGIA_SCORE(birth_year, song.year, song.count,
                                         SONG_MAX_COUNT, TRUE),
     similarity_score |-> song.score]

\* step 4
GenerateCandidates(birth_year, movie_df, song_df) ==
    [i \in 1..Len(movie_df) |-> MovieCandidate(birth_year, movie_df[i])]
    \o [i \in 1..Len(song_df) |-> SongCandidate(birth_year, song_df[i])]

RecentIds(recent_feedback) ==
    {recent_feedback[i].content_id : i \in DOMAIN recent_feedback}

IsFresh(recent_ids, c) == c.id \notin recent_ids

IsNostalgic(c) == c.nostalgia_score >= MIN_NOSTALGIA_SCORE

\* the removal that lets every candidate through
KeepRecent(candidates, recent_ids) == candidates

\* step 5: remove recently shown items
RemoveRecent(candidates, recent_ids) ==
    SelectSeq(candidates, LAMBDA c : IsFresh(recent_ids, c))

\* the threshold without its fallback
ApplyNostalgiaThresholdStrict(candidates) == SelectSeq(candidates, IsNostalgic)

\* step 5: nostalgia threshold; the candidates stay as they are when none
\* reaches it
ApplyNostalgiaThreshold(candidates) ==
    LET nostalgic_candidates == SelectSeq(candidates, IsNostalgic)
    IN  IF Len(nostalgic_candidates) > 0 THEN nostalgic_candidates ELSE candidates

FilterCandidates(candidates, recent_ids) ==
    ApplyNostalgiaThreshold(RemoveRecent(candidates, recent_ids))

\* the orders Shuffle leaves a list in: as it was, or reversed
Shuffles(candidates) ==
    {candidates, [i \in 1..Len(candidates) |-> candidates[Len(candidates) + 1 - i]]}

\* how many candidates a stable descending sort puts before candidates[i]
Before(candidates, i) ==
    Cardinality({j \in 1..Len(candidates) :
        \/ candidates[j].similarity_score > candidates[i].similarity_score
        \/ /\ candidates[j].similarity_score = candidates[i].similarity_score
           /\ j < i})

SortBySimilarity(candidates) ==
    [k \in 1..Len(candidates) |->
        candidates[CHOOSE i \in 1..Len(candidates) : Before(candidates, i) = k - 1]]

\* the whole sorted list instead of its head
TopAll(sorted) == sorted

\* arm_candidates[0:5]
TopFive(sorted) == SubSeq(sorted, 1, Min(TOP_K, Len(sorted)))

IsOfArm(arm, c) == GetArmFromCandidate(c) = arm

\* the candidates the within-arm choice is made from
WithinArm(candidates, selected_idx) ==
    LET selected_arm == GetArmFromCandidate(candidates[selected_idx + 1])
        arm_candidates == SelectSeq(candidates, LAMBDA c : IsOfArm(selected_arm, c))
    IN  TopFive(SortBySimilarity(arm_candidates))

\* what the text analysis returns for a journal text, and the cached context
Analysis(journal_text) ==
    IF journal_text = "" THEN [stress_score |-> 1, emotion |-> "neutral"]
    ELSE [stress_score |-> ContextUnit, emotion |-> "sadness"]

JournalTexts == {"", "rough day"}

Failures == {"none", "analysis", "movie_recommender", "song_recommender"}

NoContent == [type |-> "none", id |-> 0]

EngineFailure(error) ==
    [ok |-> FALSE, error |-> error, generated |-> <<>>, candidates |-> <<>>,
     picked |-> NoContent, bandit_score |-> 0, selected |-> NoContent,
     stress_score |-> 0, emotion |-> "none"]

Range(seq) == {seq[i] : i \in DOMAIN seq}

\* step 6 for one order of the candidates: the candidate the bandit picked,
\* its score and the item chosen within its arm
Selections(b, user_id, context, candidates) ==
    UNION {{[picked |-> candidates[o.result.idx + 1],
             bandit_score |-> o.result.score, selected |-> selected] :
               selected \in Range(WithinArm(candidates, o.result.idx))} :
           o \in HierarchicalSelect(b.global, GetOrCreateUserModel(b.users, user_id),
                                    context, candidates)}

\* steps 3-7 with the candidates scored for a user born in year: the
\* outcomes of the engine call
Pipeline(b, rows, user_id, journal_text, year, birth_year, movie_df, song_df) ==
    LET recent_feedback == FetchRecentFeedback(rows, RECENT_LIMIT)
        analysis == Analysis(journal_text)
        generated == GenerateCandidates(year, movie_df, song_df)
        filtered == FilterCandidates(generated, RecentIds(recent_feedback))
    IN  IF filtered = <<>>
        THEN {[EngineFailure("selection") EXCEPT !.generated = generated]}
        ELSE UNION {UNION {
                 {[ok |-> TRUE, error |-> "none", generated |-> generated,
                   candidates |-> filtered, picked |-> s.picked,
                   bandit_score |-> s.bandit_score, selected |-> s.selected,
                   stress_score |-> analysis.stress_score,
                   emotion |-> analysis.emotion] :
                     s \in Selections(b, user_id,
                                      BuildContextFeatures(analysis.stress_score,
                                                           analysis.emotion,
                                                           user_positive_rate,
                                                           birth_year),
                                      candidates)} :
                 candidates \in Shuffles(filtered)} :
               user_positive_rate \in CalculatePositiveRate(recent_feedback)}

\* the engine's answer to POST /recommend.  A failed collaborator fails the
\* call; the nostalgia score of a user without birth year is not defined by
\* the source: the call fails or scores against the default birth year
GetRecommendation(b, rows, user_id, journal_text, failure, movie_df, song_df) ==
    LET prefs == FetchUserPreferences(user_id)
    IN  IF failure # "none" THEN {EngineFailure(failure)}
        ELSE IF prefs.birth_year.known
        THEN Pipeline(b, rows, user_id, journal_text, prefs.birth_year.year,
                      prefs.birth_year, movie_df, song_df)
        ELSE {EngineFailure("scoring")}
             \cup Pipeline(b, rows, user_id, journal_text, BIRTH_YEAR_CENTER,
                           prefs.birth_year, movie_df, song_df)

(***************************************************************************)
(* Recommendation endpoint (GET /api/habits/recommendation)                *)
(***************************************************************************)
\* the answer that shows a popular item when the engine call failed
RecommendationResponseWithFallback(outcome) ==
    IF outcome.ok
    THEN [status |-> 200, message |-> "ok",
          content |-> [type |-> outcome.selected.type, id |-> outcome.selected.id]]
    ELSE [status |-> 200, message |-> "ok", content |-> [type |-> "movie", id |-> 1]]

\* the handler's answer: the content of the engine's response, or error 503
\* whatever made the engine call fail
RecommendationResponse(outcome) ==
    IF outcome.ok
    THEN [status |-> 200, message |-> "ok",
          content |-> [type |-> outcome.selected.type, id |-> outcome.selected.id]]
    ELSE [status |-> 503,
          message |-> "Recommendation service temporarily unavailable",
          content |-> NoContent]

\* the recommendation that counts as an observation of the global model
RecommendLearning(user_id, journal_text, failure, movie_df, song_df) ==
    /\ served < MaxRequests
    /\ call.op # "recommend"
    /\ served' = served + 1
    /\ UNCHANGED <<habit_logs, card>>
    /\ \E outcome \in GetRecommendation(bandit, feedback[user_id], user_id,
                                        journal_text, failure, movie_df, song_df) :
          /\ call' = [op |-> "recommend", user |-> user_id,
                      journal_text |-> journal_text, failure |-> failure,
                      outcome |-> outcome,
                      response |-> RecommendationResponse(outcome)]
          /\ bandit' = [bandit EXCEPT !.global.n_updates = @ + 1]
    /\ UNCHANGED <<store, unsaved, reported, live, restarts, workers, locks, feedback>>

\* one request served: the engine call and the handler's answer.  The
\* selection creates the user's models if the user has none.  A request
\* writes nothing a later request reads, so a second one in a row would
\* start from the same models and rows: one is explored between two other
\* requests
Recommend(user_id, journal_text, failure, movie_df, song_df) ==
    /\ served < MaxRequests
    /\ call.op # "recommend"
    /\ served' = served + 1
    /\ UNCHANGED <<habit_logs, card>>
    /\ \E outcome \in GetRecommendation(bandit, feedback[user_id], user_id,
                                        journal_text, failure, movie_df, song_df) :
          /\ call' = [op |-> "recommend", user |-> user_id,
                      journal_text |-> journal_text, failure |-> failure,
                      outcome |-> outcome,
                      response |-> RecommendationResponse(outcome)]
          /\ bandit' = IF outcome.ok
                       THEN [bandit EXCEPT !.users =
                                (user_id :> GetOrCreateUserModel(bandit.users, user_id))
                                @@ @]
                       ELSE bandit
    /\ UNCHANGED <<store, unsaved, reported, live, restarts, workers, locks, feedback>>

(***************************************************************************)
(* Both endpoints serving requests, with collaborators that may fail       *)
(***************************************************************************)
RecommendAny ==
    \E u \in Users, journal_text \in JournalTexts, failure \in Failures,
       movie_df \in MovieResults, song_df \in SongResults :
        \* the text analysis is called for a journal text only
        /\ failure = "analysis" => journal_text # ""
        /\ Recommend(u, journal_text, failure, movie_df, song_df)

\* feedback between recommendations: requests about a film whose row was
\* stored and whose observation the engine learnt
RecordSome ==
    \E u \in Users, c \in {x \in FeedbackContents : x.type = "movie"},
       brings_back_memories \in BOOLEAN :
        RecordFeedback(u, c, brings_back_memories, TRUE, TRUE)

NextRecommend == RecommendAny \/ RecordSome

SpecRecommend == InitFeedback /\ [][NextRecommend]_vars

(***************************************************************************)
(* Properties of the recommendation endpoint                               *)
(***************************************************************************)
\* the engine call of the latest request got as far as filtering
Filtered == call.op = "recommend" /\ call.outcome.error \in {"none", "selection"}

\* ids of the user's 50 latest feedback rows
LatestIds(user_id) ==
    {feedback[user_id][i].content_id :
        i \in {j \in DOMAIN feedback[user_id] :
                  j > Len(feedback[user_id]) - RECENT_LIMIT}}

\* the generated candidates that were not shown recently
NotShown(user_id, generated) ==
    SelectSeq(generated, LAMBDA c : c.id \notin LatestIds(user_id))

AllBelowThreshold(candidates) ==
    \A i \in DOMAIN candidates : candidates[i].nostalgia_score < MIN_NOSTALGIA_SCORE

\* C12 (as stated): a non-empty candidate list whose nostalgia scores are
\* all below 0.3 never leaves the filter empty: the filter returns the
\* list it was given.
C12_FallbackToUnfilteredList ==
    Filtered /\ call.outcome.generated # <<>>
             /\ AllBelowThreshold(call.outcome.generated)
        => /\ call.outcome.candidates # <<>>
           /\ call.outcome.candidates = call.outcome.generated

\* C12 (amended): when the candidates left after the removal of recently
\* shown items are not empty and all score below 0.3, the filter returns
\* exactly these candidates, never an empty list.
C12_FallbackToRecencyFilteredList ==
    Filtered /\ NotShown(call.user, call.outcome.generated) # <<>>
             /\ AllBelowThreshold(NotShown(call.user, call.outcome.generated))
        => /\ call.outcome.candidates # <<>>
           /\ call.outcome.candidates = NotShown(call.user, call.outcome.generated)

\* the fallback taken on a list that lost a recently shown item
C12_Witness ==
    /\ Filtered /\ call.outcome.ok
    /\ AllBelowThreshold(call.outcome.generated)
    /\ call.outcome.candidates # <<>>
    /\ Len(call.outcome.candidates) < Len(call.outcome.generated)

\* C13: the item returned by a recommendation request is none of the items
\* of the user's 50 latest feedback rows, whether the nostalgia threshold
\* or its fallback produced the candidates.
C13_NeverRecentlyShown ==
    call.op = "recommend" /\ call.response.status = 200
        => call.response.content.id \notin LatestIds(call.user)

\* the fallback returns the item of the user's 51st latest row although a
\* more recently shown one was generated too
C13_Witness ==
    /\ call.op = "recommend" /\ call.response.status = 200
    /\ AllBelowThreshold(call.outcome.candidates)
    /\ \E i \in DOMAIN call.outcome.generated :
          call.outcome.generated[i].id \in LatestIds(call.user)
    /\ Len(feedback[call.user]) > RECENT_LIMIT
    /\ call.response.content.id = feedback[call.user][1].content_id

\* the final candidates of the arm of c that are more similar than c
MoreSimilar(candidates, c) ==
    {i \in DOMAIN candidates :
        /\ GetArmFromCandidate(candidates[i]) = GetArmFromCandidate(c)
        /\ candidates[i].similarity_score > c.similarity_score}

\* C14: the returned item is a final candidate of the arm of the candidate
\* the bandit picked, and fewer than five candidates of that arm are more
\* similar than it.
C14_WithinArmTopFive ==
    call.op = "recommend" /\ call.outcome.ok
        => /\ call.outcome.selected \in Range(call.outcome.candidates)
           /\ call.outcome.picked \in Range(call.outcome.candidates)
           /\ GetArmFromCandidate(call.outcome.selected)
                  = GetArmFromCandidate(call.outcome.picked)
           /\ Cardinality(MoreSimilar(call.outcome.candidates,
                                      call.outcome.selected)) < TOP_K
           /\ call.response.content.id = call.outcome.selected.id
           /\ call.response.content.type = call.outcome.selected.type

\* the bandit picked the least similar of more than five candidates of an
\* arm and another item of the arm is returned
C14_Witness ==
    /\ call.op = "recommend" /\ call.outcome.ok
    /\ Cardinality(MoreSimilar(call.outcome.candidates, call.outcome.picked)) > TOP_K
    /\ call.outcome.selected # call.outcome.picked
    /\ Cardinality(MoreSimilar(call.outcome.candidates, call.outcome.selected))
           = TOP_K - 1

\* the models of the global scope and of every user, a user without models
\* counting as one with new models
SameModels(after, before) ==
    /\ after.global = before.global
    /\ \A u \in Users :
          GetOrCreateUserModel(after.users, u) = GetOrCreateUserModel(before.users, u)

\* C15: a recommendation request leaves A, b and n of the global and of
\* every user's model as they were, in memory and in the store; every step
\* that changes a model is a feedback request whose update was applied.
C15_OnlyUpdateChangesModels ==
    [][/\ (call'.op = "recommend" =>
              SameModels(bandit', bandit) /\ store' = store)
       /\ (~SameModels(bandit', bandit) \/ store' # store =>
              call'.op = "feedback" /\ call'.updated)]_vars

\* a recommendation served by fitted models to a user who has never given
\* feedback
C15_Witness ==
    /\ call.op = "recommend" /\ call.outcome.ok
    /\ bandit.global.is_fitted /\ live > 0
    /\ call.user \in DOMAIN bandit.users
    /\ bandit.users[call.user] = NewModel

\* a collaborator of the engine failed while the latest request was served
CollaboratorFailed == call.op = "recommend" /\ call.failure # "none"

C17_EmptyListIsExplicit ==
    Filtered /\ call.outcome.candidates = <<>>
        => /\ call.response.message = "no recommendation available"
           /\ call.response.status # 503

(***************************************************************************)
(* Requests of users whose profile has no birth year                       *)
(***************************************************************************)
\* the step served a feedback request of a user without birth year
ServedWithoutBirthYear ==
    FeedbackServed /\ ~FetchUserPreferences(call'.user).birth_year.known

CtxCalm == [i \in 1..1 |-> 1]

\* the context without any feature set
CtxNone == <<>>

\* eight times "drama brought back memories" at neutral stress
LogCalm == [i \in 1..8 |-> FeedbackEntry("u1", CtxCalm, CandDrama, Scale)]

RoundTripContexts == {CtxNone, CtxCalm, CtxStressed, CtxOld}

InitRoundTrip ==
    /\ store \in {Replay(EmptyBandit, log, 1) : log \in {<<>>, LogMixed, LogCalm}}
    /\ bandit = store
    /\ unsaved = {}
    /\ reported = 0
    /\ call = [op |-> "sequence", base |-> store.global, entries |-> <<>>]
    /\ live = 0
    /\ restarts = 0
    /\ workers = NoWorkers
    /\ locks = Unlocked
    /\ feedback = NoFeedback
    /\ served = 0
    /\ habit_logs = NoHabitLogs
    /\ card = NoCard

NextRoundTrip ==
    \E x \in RoundTripContexts, c \in UpdateCandidates, r \in {0, Scale} :
        ArmUpdate(x, c, r)

SpecRoundTrip == InitRoundTrip /\ [][NextRoundTrip]_vars

\* theta' x of the arm as the fraction Numerator / Denominator, exactly;
\* the denominator is positive
Numerator(m, arm, x) == Quad(x, Adj(m.A[arm]), m.b[arm])

Denominator(m, arm) == Det(m.A[arm], Dim)

\* the expectation of m2 is below (at most) that of m1
Lower(m2, m1, arm, x) ==
    Numerator(m2, arm, x) * Denominator(m1, arm)
        < Numerator(m1, arm, x) * Denominator(m2, arm)

AtMost(m2, m1, arm, x) ==
    Numerator(m2, arm, x) * Denominator(m1, arm)
        <= Numerator(m1, arm, x) * Denominator(m2, arm)

\* the expectation is below (above) 1.0
BelowOne(m, arm, x) == Numerator(m, arm, x) < Denominator(m, arm)

AboveOne(m, arm, x) == Numerator(m, arm, x) > Denominator(m, arm)

\* the entry the step recorded
Recorded == call'.entries[Len(call'.entries)]

RecordedArm == GetArmFromCandidate(Recorded.candidate)

RecordedContext == EnsureShape(Recorded.context)

\* the step recorded a positive feedback event
PositiveRecorded ==
    /\ Len(call'.entries) = Len(call.entries) + 1
    /\ 2 * Recorded.reward > Scale

GenreTexts == {"", "drama", "war", "documentary", "rock", "hip hop", "jazz", "zydeco"}

GenreParts == {Part(t, upper, padded) : t \in GenreTexts, upper \in BOOLEAN,
                                        padded \in BOOLEAN}

\* raw genre strings: the empty one and those of up to MaxParts parts
RawGenres == UNION {[1..n -> GenreParts] : n \in 0..MaxParts}

ContentTypes == {"movie", "song"}

\* a raw genre string and a content type are given
InitGenre ==
    /\ store = EmptyBandit
    /\ bandit = store
    /\ unsaved = {}
    /\ reported = 0
    /\ \E raw_genre \in RawGenres, content_type \in ContentTypes :
          call = [op |-> "genre", raw_genre |-> raw_genre,
                  content_type |-> content_type]
    /\ live = 0
    /\ restarts = 0
    /\ workers = NoWorkers
    /\ locks = Unlocked
    /\ feedback = NoFeedback
    /\ served = 0
    /\ habit_logs = NoHabitLogs
    /\ card = NoCard

Normalize ==
    /\ call.op = "genre"
    /\ call' = [op |-> "normalize", raw_genre |-> call.raw_genre,
                content_type |-> call.content_type,
                arm |-> NORMALIZE_GENRE(call.raw_genre, call.content_type)]
    /\ UNCHANGED <<bandit, store, unsaved, reported, live, restarts, workers, locks,
                   feedback, served,
          habit_logs, card>>

\* the arm name returned is given back as a raw genre string of the same
\* content type
Renormalize ==
    /\ call.op = "normalize"
    /\ call' = [op |-> "renormalize", arm |-> call.arm,
                content_type |-> call.content_type,
                again |-> NORMALIZE_GENRE(<<Part(call.arm, FALSE, FALSE)>>,
                                          call.content_type)]
    /\ UNCHANGED <<bandit, store, unsaved, reported, live, restarts, workers, locks,
                   feedback, served,
          habit_logs, card>>

NextGenre == Normalize \/ Renormalize

SpecGenre == InitGenre /\ [][NextGenre]_vars

\* C20: the normalization of every raw genre string (empty, unknown, of
\* several parts) and content type returns one of the 12 arms.
C20_GenreNormalizerTotal ==
    call.op = "normalize"
        => /\ call.arm \in ARMS
           /\ Cardinality(ARMS) = 12

\* a genre string of two parts whose first part is no known genre, written
\* in upper case with blanks around it
C20_Witness ==
    /\ call.op = "normalize"
    /\ Len(call.raw_genre) = 2
    /\ call.raw_genre[1] = Part("zydeco", TRUE, TRUE)
    /\ call.raw_genre[2].text = "rock"
    /\ call.content_type = "song"
    /\ call.arm = "other_song"

\* C21: normalizing an arm name the normalization has returned, with the
\* same content type, returns that same arm name.
C21_GenreNormalizerIdempotent ==
    call.op = "renormalize" => call.again = call.arm

(***************************************************************************)
(* The nostalgia score applied to two items of equal popularity            *)
(***************************************************************************)
BirthYears == {1960, 1990}

\* release years from long before birth to long after the peak age
ReleaseYears == 1940..2015

\* rating count, maximum and scaling mode: log scaling of raw counts (none,
\* negative, below, at and above the maximum, and no maximum) and linear
\* scaling of a 0-100 popularity (none, below, at and above the maximum)
Popularities ==
    {[rating_count |-> n, max_count |-> MOVIE_MAX_COUNT, use_linear |-> FALSE] :
        n \in {-1, 0, 9, 999, 99999, 999999}}
    \cup {[rating_count |-> 999, max_count |-> 0, use_linear |-> FALSE]}
    \cup {[rating_count |-> n, max_count |-> SONG_MAX_COUNT, use_linear |-> TRUE] :
        n \in {0, 40, 100, 150}}

\* a user, two release years and one popularity are given
InitNostalgia ==
    /\ store = EmptyBandit
    /\ bandit = store
    /\ unsaved = {}
    /\ reported = 0
    /\ \E birth_year \in BirthYears, release_year \in ReleaseYears,
          other_year \in ReleaseYears, p \in Popularities :
          call = [op |-> "items", birth_year |-> birth_year,
                  release_year |-> release_year, other_year |-> other_year,
                  rating_count |-> p.rating_count, max_count |-> p.max_count,
                  use_linear |-> p.use_linear]
    /\ live = 0
    /\ restarts = 0
    /\ workers = NoWorkers
    /\ locks = Unlocked
    /\ feedback = NoFeedback
    /\ served = 0
    /\ habit_logs = NoHabitLogs
    /\ card = NoCard

\* both items are scored for the user
Score ==
    /\ call.op = "items"
    /\ call' = [op |-> "nostalgia", birth_year |-> call.birth_year,
                release_year |-> call.release_year, other_year |-> call.other_year,
                rating_count |-> call.rating_count, max_count |-> call.max_count,
                use_linear |-> call.use_linear,
                score |-> NOSTALGIA_SCORE(call.birth_year, call.release_year,
                                          call.rating_count, call.max_count,
                                          call.use_linear),
                other_score |-> NOSTALGIA_SCORE(call.birth_year, call.other_year,
                                                call.rating_count, call.max_count,
                                                call.use_linear)]
    /\ UNCHANGED <<bandit, store, unsaved, reported, live, restarts, workers, locks,
                   feedback, served,
          habit_logs, card>>

NextNostalgia == Score

SpecNostalgia == InitNostalgia /\ [][NextNostalgia]_vars

\* the two items have been scored
Scored == call.op = "nostalgia"

\* the user's age at the release of the first and of the other item
AgeAtRelease == call.release_year - call.birth_year

OtherAgeAtRelease == call.other_year - call.birth_year

\* C22: for every birth year, release year and popularity, with linear and
\* with logarithmic scaling, the nostalgia score (in thousandths) lies
\* between 0 and 1 inclusive.
C22_ScoreWithinUnitInterval ==
    Scored => call.score \in 0..1000

\* an item released at the peak age whose rating count exceeds the maximum
\* of the log scaling: step 6 clamps the score to 1
C22_Witness ==
    /\ Scored
    /\ ~call.use_linear
    /\ call.rating_count > call.max_count
    /\ call.max_count > 0
    /\ AgeAtRelease = PEAK_AGE
    /\ call.score = 1000

\* C23 as stated: for equal popularity, the item whose age at release is at
\* least as far from 13 never scores higher, pre-birth and post-birth ages
\* compared alike.
C23_NeverIncreasesWithDistance ==
    (Scored /\ Abs(AgeAtRelease - PEAK_AGE) <= Abs(OtherAgeAtRelease - PEAK_AGE)
        => call.score >= call.other_score)

\* C23 amended: the same for two post-birth items and for two pre-birth
\* items.
C23_NeverIncreasesWithDistanceSameSide ==
    (Scored /\ (AgeAtRelease >= 0) = (OtherAgeAtRelease >= 0)
            /\ Abs(AgeAtRelease - PEAK_AGE) <= Abs(OtherAgeAtRelease - PEAK_AGE)
        => call.score >= call.other_score)

\* two post-birth items on different sides of the peak, the nearer one
\* scoring strictly higher
C23_Witness ==
    /\ Scored
    /\ AgeAtRelease > PEAK_AGE
    /\ OtherAgeAtRelease >= 0
    /\ OtherAgeAtRelease < PEAK_AGE
    /\ Abs(AgeAtRelease - PEAK_AGE) < Abs(OtherAgeAtRelease - PEAK_AGE)
    /\ call.score > call.other_score

\* C24: of two pre-birth items of equal popularity, the one released longer
\* before the user's birth never scores higher.
C24_OlderPreBirthNeverHigher ==
    (Scored /\ AgeAtRelease < OtherAgeAtRelease /\ OtherAgeAtRelease < 0
        => call.score <= call.other_score)

\* two popular pre-birth items, the older one scoring strictly lower
C24_Witness ==
    /\ Scored
    /\ AgeAtRelease < OtherAgeAtRelease
    /\ OtherAgeAtRelease < 0
    /\ call.rating_count = call.max_count
    /\ call.score < call.other_score

(***************************************************************************)
(* The habit-log endpoint serving posts side by side: each handler first   *)
(* looks for the row of (user, date) and then updates or inserts it; the   *)
(* table has the unique constraint daily_habit_logs_user_date_unique       *)
(***************************************************************************)
LogDates == {"2024-03-01", "2024-03-02"}

\* the table is empty and no post is being served
InitLogs ==
    /\ store = EmptyBandit
    /\ bandit = store
    /\ unsaved = {}
    /\ reported = 0
    /\ call = [op |-> "start"]
    /\ live = 0
    /\ restarts = 0
    /\ workers = NoWorkers
    /\ locks = Unlocked
    /\ feedback = NoFeedback
    /\ served = 0
    /\ habit_logs = NoHabitLogs
    /\ card = NoCard

\* the rows of the table for (user_id, date)
ExistingLogs(user_id, date) ==
    {row \in habit_logs : row.user_id = user_id /\ row.date = date}

\* a post without notes arrives and its handler starts
PostLog(user_id, date, completed) ==
    /\ Len(workers) < MaxWorkers
    /\ workers' = Append(workers, [op |-> "log", user_id |-> user_id, date |-> date,
                                   completed |-> completed, pos |-> "select",
                                   existing |-> {}, action |-> "none"])
    /\ UNCHANGED <<bandit, store, unsaved, reported, call, live, restarts, locks,
                   feedback, served, habit_logs, card>>

\* the handler reads the id of the row of (user, date), if there is one
SelectExisting(i) ==
    /\ workers[i].op = "log" /\ workers[i].pos = "select"
    /\ \E existing \in IF ExistingLogs(workers[i].user_id, workers[i].date) = {}
                       THEN {{}}
                       ELSE {{row.id} :
                                row \in ExistingLogs(workers[i].user_id,
                                                     workers[i].date)} :
          workers' = [workers EXCEPT ![i].existing = existing, ![i].pos = "write"]
    /\ UNCHANGED <<bandit, store, unsaved, reported, call, live, restarts, locks,
                   feedback, served, habit_logs, card>>

\* the handler updates the row it found, or inserts a new row; an insert
\* that breaks the unique constraint is rejected by the database and the
\* error fails the request
WriteLog(i) ==
    /\ workers[i].op = "log" /\ workers[i].pos = "write"
    /\ IF workers[i].existing # {}
       THEN /\ habit_logs' =
                   {IF row.id \in workers[i].existing
                    THEN [row EXCEPT !.completed = workers[i].completed]
                    ELSE row : row \in habit_logs}
            /\ workers' = [workers EXCEPT ![i].pos = "done", ![i].action = "updated"]
       ELSE IF ExistingLogs(workers[i].user_id, workers[i].date) # {}
       THEN /\ habit_logs' = habit_logs
            /\ workers' = [workers EXCEPT ![i].pos = "done", ![i].action = "error"]
       ELSE /\ habit_logs' = habit_logs \cup
                   {[id |-> i, user_id |-> workers[i].user_id,
                     date |-> workers[i].date, completed |-> workers[i].completed]}
            /\ workers' = [workers EXCEPT ![i].pos = "done", ![i].action = "created"]
    /\ UNCHANGED <<bandit, store, unsaved, reported, call, live, restarts, locks,
                   feedback, served, card>>

NextLogs ==
    \/ \E u \in Users, date \in LogDates, completed \in BOOLEAN :
          PostLog(u, date, completed)
    \/ \E i \in 1..Len(workers) : SelectExisting(i)
    \/ \E i \in 1..Len(workers) : WriteLog(i)

SpecLogs == InitLogs /\ [][NextLogs]_vars

\* C28: two posts for the same user and date that are served side by side
\* both succeed and leave exactly one row for that (user, date): one is
\* answered 'created' and the other 'updated'.
C28_ConcurrentPostsBothSucceed ==
    \A i, j \in 1..Len(workers) :
        (/\ i < j
         /\ workers[i].user_id = workers[j].user_id
         /\ workers[i].date = workers[j].date
         /\ workers[i].pos = "done" /\ workers[j].pos = "done"
         /\ \A k \in 1..Len(workers) :
               k \notin {i, j} => \/ workers[k].user_id # workers[i].user_id
                                  \/ workers[k].date # workers[i].date)
            => /\ Cardinality(ExistingLogs(workers[i].user_id, workers[i].date)) = 1
               /\ {workers[i].action, workers[j].action} = {"created", "updated"}

(***************************************************************************)
(* The content-listing endpoints (movies and songs) answering one query    *)
(* over a catalogue with old, borderline, recent and undated items         *)
(***************************************************************************)
Year(value) == [known |-> TRUE, value |-> value]

\* the year column is NULL
NoYear == [known |-> FALSE, value |-> 0]

CatalogueRow(id, year, popularity, matches) ==
    [id |-> id, year |-> year, popularity |-> popularity, matches |-> matches]

\* rows of the movies / songs table; matches tells whether the title (or an
\* artist) contains the search term of the model
Catalogue ==
    {CatalogueRow(1, Year(1985), 50, TRUE),
     CatalogueRow(2, Year(2005), 70, FALSE),
     CatalogueRow(3, Year(2015), 60, TRUE),
     CatalogueRow(4, Year(2016), 90, TRUE),
     CatalogueRow(5, Year(2020), 99, TRUE),
     CatalogueRow(6, NoYear, 80, TRUE)}

\* new Date().getFullYear()
CurrentYears == {2025, 2026}

\* validated queries: 0 stands for a year that is not given (0 is falsy as
\* well), "" for no search text, {} for no ids
Queries ==
    [yearStart : {0, 2000}, yearEnd : {0, 2010, 2030}, search : {"", " ", "love"},
     limit : {1, 2}, excludeIds : {{}, {1}}, mode : {"random", "popular", "similar"},
     selectedIds : {{}, {1}}]

MaxAllowedYear(currentYear) == currentYear - 10

\* the upper year bound taken from the query as it is
EffectiveYearEndUncapped(query, currentYear) ==
    IF query.yearEnd # 0 THEN query.yearEnd ELSE MaxAllowedYear(currentYear)

EffectiveYearEnd(query, currentYear) ==
    IF query.yearEnd # 0
    THEN Min(query.yearEnd, MaxAllowedYear(currentYear))
    ELSE MaxAllowedYear(currentYear)

\* query.search && query.search.trim()
HasSearch(query) == query.search \notin {"", " "}

\* lte / gte on the year column: a NULL year satisfies neither
YearAtMost(row, year) == row.year.known /\ row.year.value <= year

YearAtLeast(row, year) == row.year.known /\ row.year.value >= year

\* the rows that satisfy every entry of conditions
Conditions(query, currentYear) ==
    {row \in Catalogue :
        /\ query.yearStart # 0 => YearAtLeast(row, query.yearStart)
        /\ YearAtMost(row, EffectiveYearEnd(query, currentYear))
        /\ HasSearch(query) => row.matches
        /\ row.id \notin query.excludeIds}

\* the rows that satisfy every entry of searchConditions (yearStart ignored)
SearchConditions(query, currentYear) ==
    {row \in Catalogue :
        /\ YearAtMost(row, EffectiveYearEnd(query, currentYear))
        /\ row.matches
        /\ row.id \notin query.excludeIds}

\* .limit(n) on rows in no particular (or random) order
Limit(rows, n) ==
    {items \in SUBSET rows : Cardinality(items) = Min(n, Cardinality(rows))}

\* .orderBy(desc(popularity)).limit(n)
MostPopular(rows, n) ==
    {row \in rows : Cardinality({other \in rows : other.popularity > row.popularity}) < n}

\* the answers of the similarity recommenders: a failure, or at most
\* n_recommendations ids of items that are at least 10 years old
RecommenderAnswers(query, currentYear) ==
    {[ok |-> FALSE, ids |-> {}]}
    \cup {[ok |-> TRUE, ids |-> {row.id : row \in rows}] :
             rows \in {r \in SUBSET {row \in Catalogue :
                                        YearAtMost(row, MaxAllowedYear(currentYear))} :
                          Cardinality(r) <= query.limit}}

ContentResponse(items, mode) == [items |-> items, mode |-> mode]

\* the responses the handler of content_type may give
ListContent(content_type, query, currentYear, recommended) ==
    IF query.mode = "similar" /\ query.selectedIds # {} /\ recommended.ok
    THEN {ContentResponse(items, "similar") :
            items \in Limit(IF content_type = "movie"
                            THEN {row \in Conditions(query, currentYear) :
                                     row.id \in recommended.ids}
                            ELSE {row \in Catalogue :
                                     /\ row.id \in recommended.ids
                                     /\ row.id \notin query.excludeIds},
                            query.limit)}
    ELSE IF query.mode = "popular"
    THEN {ContentResponse(MostPopular(Conditions(query, currentYear), query.limit),
                          "popular")}
    ELSE IF HasSearch(query)
    THEN {ContentResponse(MostPopular(SearchConditions(query, currentYear),
                                      query.limit), "search")}
    ELSE {ContentResponse(items, "random") :
            items \in Limit(Conditions(query, currentYear), query.limit)}

\* a query arrives at one of the two endpoints
InitContent ==
    /\ store = EmptyBandit
    /\ bandit = store
    /\ unsaved = {}
    /\ reported = 0
    /\ \E content_type \in ContentTypes, query \in Queries,
          currentYear \in CurrentYears :
          call = [op |-> "query", content_type |-> content_type, query |-> query,
                  currentYear |-> currentYear]
    /\ live = 0
    /\ restarts = 0
    /\ workers = NoWorkers
    /\ locks = Unlocked
    /\ feedback = NoFeedback
    /\ served = 0
    /\ habit_logs = NoHabitLogs
    /\ card = NoCard

\* the handler answers it
AnswerQuery ==
    /\ call.op = "query"
    /\ \E recommended \in RecommenderAnswers(call.query, call.currentYear) :
       \E response \in ListContent(call.content_type, call.query, call.currentYear,
                                   recommended) :
          call' = [op |-> "listed", content_type |-> call.content_type,
                   query |-> call.query, currentYear |-> call.currentYear,
                   items |-> response.items, mode |-> response.mode]
    /\ UNCHANGED <<bandit, store, unsaved, reported, live, restarts, workers, locks,
                   feedback, served, habit_logs, card>>

NextContent == AnswerQuery

SpecContent == InitContent /\ [][NextContent]_vars

ExitTypes == {"skip", "next"}

\* the card is mounted and shows its first recommendation; the watcher has
\* run once (immediate) and cleared exitLogged
InitCard ==
    /\ store = EmptyBandit
    /\ bandit = store
    /\ unsaved = {}
    /\ reported = 0
    /\ call = [op |-> "start"]
    /\ live = 0
    /\ restarts = 0
    /\ workers = NoWorkers
    /\ locks = Unlocked
    /\ feedback = NoFeedback
    /\ served = 0
    /\ habit_logs = NoHabitLogs
    /\ card = [mounted |-> TRUE, recommendation |-> 1, fetched |-> 1,
               exitLogged |-> FALSE, refreshes |-> <<>>, sent |-> <<>>]

\* the exit interaction of the recommendation shown, as it is posted
ExitInteraction(type) == [recommendation |-> card.recommendation, type |-> type]

\* sendExitLog: nothing if the exit was logged already or nothing is shown;
\* otherwise, if the content was viewed for more than 5 s (long), a beacon
\* is sent and exitLogged is set
SendExitLog(c, long, type) ==
    IF c.exitLogged \/ c.recommendation = 0 \/ ~long THEN c
    ELSE [c EXCEPT !.sent = Append(@, [recommendation |-> c.recommendation,
                                       type |-> type]),
                   !.exitLogged = TRUE]

\* the refresh button is clicked: handleRefresh runs up to its first await,
\* the $fetch of logInteraction (or the refresh() if nothing is shown)
ClickRefresh(type) ==
    /\ card.mounted
    /\ Len(card.refreshes) < MaxRefreshes
    /\ card' = IF card.recommendation # 0
               THEN [card EXCEPT !.sent = Append(@, ExitInteraction(type)),
                                 !.refreshes = Append(@, "logging")]
               ELSE [card EXCEPT !.refreshes = Append(@, "fetching")]
    /\ UNCHANGED <<bandit, store, unsaved, reported, call, live, restarts, workers,
                   locks, feedback, served, habit_logs>>

\* the post of the interaction returns (or fails, which is caught):
\* handleRefresh sets exitLogged and awaits refresh()
InteractionLogged(i) ==
    /\ card.refreshes[i] = "logging"
    /\ card' = [card EXCEPT !.exitLogged = TRUE, !.refreshes[i] = "fetching"]
    /\ UNCHANGED <<bandit, store, unsaved, reported, call, live, restarts, workers,
                   locks, feedback, served, habit_logs>>

\* refresh() returns: a new recommendation is shown and the watcher clears
\* exitLogged, or the fetch failed and nothing is shown
Refreshed(i, ok) ==
    /\ card.refreshes[i] = "fetching"
    /\ card' = IF ok
               THEN [card EXCEPT !.recommendation = card.fetched + 1,
                                 !.fetched = card.fetched + 1,
                                 !.exitLogged = FALSE,
                                 !.refreshes[i] = "done"]
               ELSE [card EXCEPT !.recommendation = 0, !.refreshes[i] = "done"]
    /\ UNCHANGED <<bandit, store, unsaved, reported, call, live, restarts, workers,
                   locks, feedback, served, habit_logs>>

\* the page is hidden (it may be shown again later)
PageHide(long, type) ==
    /\ card.mounted
    /\ card' = SendExitLog(card, long, type)
    /\ UNCHANGED <<bandit, store, unsaved, reported, call, live, restarts, workers,
                   locks, feedback, served, habit_logs>>

\* the component is unmounted; handlers that are awaiting go on afterwards
Unmount(long, type) ==
    /\ card.mounted
    /\ card' = [SendExitLog(card, long, type) EXCEPT !.mounted = FALSE]
    /\ UNCHANGED <<bandit, store, unsaved, reported, call, live, restarts, workers,
                   locks, feedback, served, habit_logs>>

NextCard ==
    \/ \E type \in ExitTypes : ClickRefresh(type)
    \/ \E i \in 1..Len(card.refreshes) : InteractionLogged(i)
    \/ \E i \in 1..Len(card.refreshes), ok \in BOOLEAN : Refreshed(i, ok)
    \/ \E long \in BOOLEAN, type \in ExitTypes : PageHide(long, type)
    \/ \E long \in BOOLEAN, type \in ExitTypes : Unmount(long, type)

SpecCard == InitCard /\ [][NextCard]_vars

\* C30: for each recommendation displayed, at most one exit interaction
\* (skip or next) is sent to the feedback endpoint, however refresh clicks,
\* the unmount and page hides interleave.
C30_AtMostOneExitPerRecommendation ==
    \A r \in 1..card.fetched :
        Cardinality({i \in 1..Len(card.sent) : card.sent[i].recommendation = r}) <= 1

=============================================================================
